---- MODULE Spec2Model ----
(***************************************************************************)
(* Verification model of markdown-agent / mdflow: the directive parser     *)
(* (src/imports-parser.ts), the import resolver (src/imports.ts) and the   *)
(* part of the orchestrator (src/cli-runner.ts) that drives them.          *)
(*                                                                         *)
(* Text is a sequence of one-character strings.  Indices into text are     *)
(* the zero-based indices of the source; At(content, i) is content[i].     *)
(***************************************************************************)
EXTENDS Integers, Sequences, FiniteSets, TLC

\* ------------------------------------------------------------- characters

\* The backquote character: a TLA+ string cannot hold it, so it is written "BT".
BT == "BT"
TL == "~"
NL == "\n"
SP == " "

\* content[i] of the source: "undefined" outside the string.
At(content, i) ==
  IF i >= 0 /\ i < Len(content) THEN content[i + 1] ELSE "undefined"

\* content.slice(from, to)
Slice(content, from, to) == SubSeq(content, from + 1, to)

\* The regular-expression class \s, over the characters the model uses.
IsSpace(c) == c \in {SP, NL, "\t"}

\* The loops  while (j < content.length && content[j] === char) { len++; j++; }
RECURSIVE RunLength(_, _, _)
RunLength(content, j, char) ==
  IF j < Len(content) /\ content[j + 1] = char
    THEN 1 + RunLength(content, j + 1, char)
    ELSE 0

\* The loops  while (i < content.length && content[i] !== '\n') i++
RECURSIVE SkipToNewline(_, _)
SkipToNewline(content, i) ==
  IF i < Len(content) /\ content[i + 1] # NL
    THEN SkipToNewline(content, i + 1)
    ELSE i

\* ---------------------------------------------------------- findSafeRanges

PushRange(safeRanges, rangeStart, i) ==
  IF i > rangeStart
    THEN Append(safeRanges, [start |-> rangeStart, end |-> i])
    ELSE safeRanges

ScanInit ==
  [context |-> "normal", rangeStart |-> 0, i |-> 0,
   fenceChar |-> "", fenceLen |-> 0, safeRanges |-> <<>>]

\* A fence opens wherever the scanner, in normal context, meets a run of three
\* or more backticks or tildes: the source does not look at the line start.
OpensFence(content, i) ==
  /\ At(content, i) \in {BT, TL}
  /\ RunLength(content, i, At(content, i)) >= 3

\* One iteration of the scanner's while loop.
ScanStep(content, s) ==
  LET c == At(content, s.i) IN
  IF s.context = "normal" THEN
    IF OpensFence(content, s.i) THEN
      LET len == RunLength(content, s.i, c) IN
      [context |-> "fenced_code", rangeStart |-> s.rangeStart,
       i |-> SkipToNewline(content, s.i + len),
       fenceChar |-> c, fenceLen |-> len,
       safeRanges |-> PushRange(s.safeRanges, s.rangeStart, s.i)]
    ELSE IF c = BT /\ At(content, s.i + 1) # BT THEN
      [s EXCEPT !.context = "inline_code", !.i = s.i + 1,
                !.safeRanges = PushRange(s.safeRanges, s.rangeStart, s.i)]
    ELSE [s EXCEPT !.i = s.i + 1]
  ELSE IF s.context = "fenced_code" THEN
    LET atLineStart == s.i = 0 \/ At(content, s.i - 1) = NL
        len == RunLength(content, s.i, s.fenceChar)
    IN IF atLineStart /\ c = s.fenceChar /\ len >= s.fenceLen THEN
         LET e == SkipToNewline(content, s.i + len)
             n == IF e < Len(content) THEN e + 1 ELSE e
         IN [s EXCEPT !.context = "normal", !.i = n, !.rangeStart = n]
       ELSE [s EXCEPT !.i = s.i + 1]
  ELSE
    IF c = BT THEN
      [s EXCEPT !.context = "normal", !.i = s.i + 1, !.rangeStart = s.i + 1]
    ELSE IF c = NL THEN
      [s EXCEPT !.context = "normal", !.i = s.i + 1, !.rangeStart = s.i]
    ELSE [s EXCEPT !.i = s.i + 1]

RECURSIVE ScanLoop(_, _)
ScanLoop(content, s) ==
  IF s.i < Len(content) THEN ScanLoop(content, ScanStep(content, s)) ELSE s

findSafeRanges(content) ==
  LET s == ScanLoop(content, ScanInit) IN
  IF s.context = "normal" /\ s.rangeStart < Len(content)
    THEN Append(s.safeRanges, [start |-> s.rangeStart, end |-> Len(content)])
    ELSE s.safeRanges

isInSafeRange(index, safeRanges) ==
  \E k \in 1..Len(safeRanges) :
    index >= safeRanges[k].start /\ index < safeRanges[k].end

\* The unsafeStarts set that parseImports builds from the safe ranges.
UnsafeStarts(content, safeRanges) ==
  IF Len(safeRanges) > 0
    THEN (IF safeRanges[1].start > 0 THEN {0} ELSE {})
         \cup {safeRanges[k].end : k \in {j \in 1..Len(safeRanges) :
                                           safeRanges[j].end < Len(content)}}
    ELSE IF Len(content) > 0 THEN {0} ELSE {}

\* ------------------------------------------------------ directive patterns
\* Each pattern is a matcher at one position: it returns [ok, end, ...] with
\* end the index after the match, as the regular expression would match there.

NoMatch == [ok |-> FALSE, end |-> -1]

\* The first index >= i holding whitespace, or the length: where [^\s]+ stops.
RECURSIVE NonSpaceEnd(_, _)
NonSpaceEnd(content, i) ==
  IF i < Len(content) /\ ~IsSpace(content[i + 1])
    THEN NonSpaceEnd(content, i + 1)
    ELSE i

\* /@(~?[./][^\s]+)/
FILE_IMPORT_PATTERN(content, i) ==
  IF At(content, i) # "@" THEN NoMatch
  ELSE LET p == IF At(content, i + 1) = "~" THEN i + 2 ELSE i + 1 IN
       IF /\ At(content, p) \in {".", "/"}
          /\ p + 1 < Len(content)
          /\ ~IsSpace(At(content, p + 1))
         THEN LET e == NonSpaceEnd(content, p + 1) IN
              [ok |-> TRUE, end |-> e, path |-> Slice(content, i + 1, e)]
         ELSE NoMatch

\* Whether text starts at index i of content.
StartsWithAt(content, i, text) ==
  /\ i + Len(text) <= Len(content)
  /\ \A k \in 1..Len(text) : content[i + k] = text[k]

\* /@(https?:\/\/[^\s]+)/
URL_IMPORT_PATTERN(content, i) ==
  IF At(content, i) # "@" THEN NoMatch
  ELSE LET http == <<"h", "t", "t", "p">>
           p == IF StartsWithAt(content, i + 1, http \o <<"s">>) THEN i + 6
                ELSE IF StartsWithAt(content, i + 1, http) THEN i + 5
                ELSE -1
       IN IF /\ p >= 0
             /\ StartsWithAt(content, p, <<":", "/", "/">>)
             /\ p + 3 < Len(content)
             /\ ~IsSpace(At(content, p + 3))
            THEN LET e == NonSpaceEnd(content, p + 3) IN
                 [ok |-> TRUE, end |-> e, url |-> Slice(content, i + 1, e)]
            ELSE NoMatch

\* The smallest q >= p where k characters char start, or -1.
RECURSIVE FindRun(_, _, _, _)
FindRun(content, p, char, k) ==
  IF p + k > Len(content) THEN -1
  ELSE IF RunLength(content, p, char) >= k THEN p
  ELSE FindRun(content, p + 1, char, k)

\* /!(BT+)([\s\S]+?)\1/ with the delimiter of k backquotes: the greedy
\* delimiter is tried longest first, the lazy content shortest first.
RECURSIVE CommandWithDelimiter(_, _, _)
CommandWithDelimiter(content, i, k) ==
  IF k < 1 THEN NoMatch
  ELSE LET c == i + 1 + k
           p == FindRun(content, c + 1, BT, k)
       IN IF p >= 0
            THEN [ok |-> TRUE, end |-> p + k, command |-> Slice(content, c, p)]
            ELSE CommandWithDelimiter(content, i, k - 1)

COMMAND_INLINE_PATTERN(content, i) ==
  IF At(content, i) # "!" THEN NoMatch
  ELSE CommandWithDelimiter(content, i, RunLength(content, i + 1, BT))

\* /(BT{3,})(.*?)\n(#![^\n]+)\n([\s\S]*?)\1/ with the fence of k backquotes.
RECURSIVE FenceWithLength(_, _, _, _, _)
FenceWithLength(content, i, k, nl1, nl2) ==
  IF k < 3 THEN NoMatch
  ELSE LET p == FindRun(content, nl2 + 1, BT, k) IN
       IF p >= 0
         THEN [ok |-> TRUE, end |-> p + k,
               infoString |-> Slice(content, i + k, nl1),
               shebang |-> Slice(content, nl1 + 1, nl2),
               code |-> Slice(content, nl2 + 1, p)]
         ELSE FenceWithLength(content, i, k - 1, nl1, nl2)

EXECUTABLE_FENCE_PATTERN(content, i) ==
  LET n == RunLength(content, i, BT)
      nl1 == SkipToNewline(content, i + n)
      nl2 == SkipToNewline(content, nl1 + 3)
  IN IF /\ n >= 3
        /\ nl1 < Len(content)
        /\ At(content, nl1 + 1) = "#"
        /\ At(content, nl1 + 2) = "!"
        /\ nl1 + 3 < Len(content)
        /\ At(content, nl1 + 3) # NL
        /\ nl2 < Len(content)
       THEN FenceWithLength(content, i, n, nl1, nl2)
       ELSE NoMatch

Pattern(kind, content, i) ==
  CASE kind = "file" -> FILE_IMPORT_PATTERN(content, i)
    [] kind = "url" -> URL_IMPORT_PATTERN(content, i)
    [] kind = "command" -> COMMAND_INLINE_PATTERN(content, i)
    [] kind = "executable_code_fence" -> EXECUTABLE_FENCE_PATTERN(content, i)

\* The loop  while ((match = PATTERN.exec(content)) !== null)  of a global
\* pattern: the matches from lastIndex pos on, each search resuming at the end
\* of the match before it.
RECURSIVE ExecAll(_, _, _)
ExecAll(kind, content, pos) ==
  IF pos >= Len(content) THEN <<>>
  ELSE LET m == Pattern(kind, content, pos) IN
       IF m.ok
         THEN <<[index |-> pos, m |-> m]>> \o ExecAll(kind, content, m.end)
         ELSE ExecAll(kind, content, pos + 1)

\* ------------------------------------------------------ parseFileImportPath

\* The letters and digits of the model's texts ([a-zA-Z] and \d of the source).
Letters ==
  {"a", "b", "c", "d", "e", "f", "g", "h", "i", "j", "k", "l", "m", "n", "o",
   "p", "q", "r", "s", "t", "u", "v", "w", "x", "y", "z",
   "A", "B", "C", "D", "E", "F", "G", "H", "I", "J", "K", "L", "M", "N", "O",
   "P", "Q", "R", "S", "T", "U", "V", "W", "X", "Y", "Z"}
Digits == {"0", "1", "2", "3", "4", "5", "6", "7", "8", "9"}

isGlobPattern(path) ==
  \E k \in 1..Len(path) : path[k] \in {"*", "?", "["}

\* The greatest k with path[k] = ch, or 0.
LastIndexOf(path, ch) ==
  LET at == {k \in 1..Len(path) : path[k] = ch} IN
  IF at = {} THEN 0 ELSE CHOOSE k \in at : \A j \in at : j <= k

\* path.match(/^(.+)#([a-zA-Z_$][a-zA-Z0-9_$]*)$/)
parseSymbolExtraction(path) ==
  LET h == LastIndexOf(path, "#") IN
  IF /\ h > 1
     /\ h < Len(path)
     /\ path[h + 1] \in Letters \cup {"_", "$"}
     /\ \A k \in (h + 2)..Len(path) : path[k] \in Letters \cup Digits \cup {"_", "$"}
    THEN [path |-> SubSeq(path, 1, h - 1), symbol |-> SubSeq(path, h + 1, Len(path))]
    ELSE [path |-> path, symbol |-> <<>>]

\* path.match(/^(.+):(\d+)-(\d+)$/)
parseLineRange(path) ==
  LET c == LastIndexOf(path, ":")
      d == LastIndexOf(path, "-")
  IN IF /\ c > 1
        /\ d > c + 1
        /\ d < Len(path)
        /\ \A k \in ((c + 1)..(d - 1)) \cup ((d + 1)..Len(path)) : path[k] \in Digits
       THEN [path |-> SubSeq(path, 1, c - 1), range |-> TRUE,
             start |-> SubSeq(path, c + 1, d - 1), end |-> SubSeq(path, d + 1, Len(path))]
       ELSE [path |-> path, range |-> FALSE, start |-> <<>>, end |-> <<>>]

parseFileImportPath(fullMatch, path, index) ==
  IF isGlobPattern(path) THEN
    [type |-> "glob", pattern |-> path, original |-> fullMatch, index |-> index]
  ELSE IF parseSymbolExtraction(path).symbol # <<>> THEN
    [type |-> "symbol", path |-> parseSymbolExtraction(path).path,
     symbol |-> parseSymbolExtraction(path).symbol,
     original |-> fullMatch, index |-> index]
  ELSE IF parseLineRange(path).range THEN
    [type |-> "file", path |-> parseLineRange(path).path,
     lineRange |-> <<parseLineRange(path).start, parseLineRange(path).end>>,
     original |-> fullMatch, index |-> index]
  ELSE
    [type |-> "file", path |-> path, lineRange |-> <<>>,
     original |-> fullMatch, index |-> index]

\* ------------------------------------------------------------- parseImports

\* actions.sort((a, b) => a.index - b.index): a stable sort by index.
RECURSIVE InsertByIndex(_, _)
InsertByIndex(sorted, a) ==
  IF sorted = <<>> THEN <<a>>
  ELSE IF Head(sorted).index <= a.index
    THEN <<Head(sorted)>> \o InsertByIndex(Tail(sorted), a)
    ELSE <<a>> \o sorted

RECURSIVE SortByIndex(_)
SortByIndex(actions) ==
  IF actions = <<>> THEN <<>>
  ELSE InsertByIndex(SortByIndex(SubSeq(actions, 1, Len(actions) - 1)),
                     actions[Len(actions)])

\* The text a match covers: match[0].
Original(content, m) == Slice(content, m.index, m.m.end)

\* language: the first word of the info string, 'txt' when there is none.
Language(infoString) ==
  LET from == CHOOSE k \in 1..(Len(infoString) + 1) :
                /\ \A j \in 1..(k - 1) : IsSpace(infoString[j])
                /\ k <= Len(infoString) => ~IsSpace(infoString[k])
      to == CHOOSE k \in from..(Len(infoString) + 1) :
                /\ \A j \in from..(k - 1) : ~IsSpace(infoString[j])
                /\ k <= Len(infoString) => IsSpace(infoString[k])
  IN IF from > Len(infoString) THEN <<"t", "x", "t">>
     ELSE SubSeq(infoString, from, to - 1)

\* code.trim()
RECURSIVE TrimLeft(_)
TrimLeft(text) ==
  IF text # <<>> /\ IsSpace(Head(text)) THEN TrimLeft(Tail(text)) ELSE text

RECURSIVE TrimRight(_)
TrimRight(text) ==
  IF text # <<>> /\ IsSpace(text[Len(text)])
    THEN TrimRight(SubSeq(text, 1, Len(text) - 1))
    ELSE text

Trim(text) == TrimRight(TrimLeft(text))

\* The matches of one pattern that parseImports keeps, as ImportActions.
FileActions(content, safeRanges) ==
  LET ms == ExecAll("file", content, 0)
      keep == {k \in 1..Len(ms) : isInSafeRange(ms[k].index, safeRanges)}
  IN [k \in keep |->
        parseFileImportPath(Original(content, ms[k]), ms[k].m.path, ms[k].index)]

UrlActions(content, safeRanges) ==
  LET ms == ExecAll("url", content, 0)
      keep == {k \in 1..Len(ms) : isInSafeRange(ms[k].index, safeRanges)}
  IN [k \in keep |->
        [type |-> "url", url |-> ms[k].m.url,
         original |-> Original(content, ms[k]), index |-> ms[k].index]]

CommandActions(content, safeRanges) ==
  LET ms == ExecAll("command", content, 0)
      keep == {k \in 1..Len(ms) : isInSafeRange(ms[k].index, safeRanges)}
  IN [k \in keep |->
        [type |-> "command", command |-> ms[k].m.command,
         original |-> Original(content, ms[k]), index |-> ms[k].index]]

\* An executable fence is kept only where it starts an unsafe block.
FenceGate(index, unsafeStarts) == index \in unsafeStarts

FenceActions(content, unsafeStarts) ==
  LET ms == ExecAll("executable_code_fence", content, 0)
      keep == {k \in 1..Len(ms) : FenceGate(ms[k].index, unsafeStarts)}
  IN [k \in keep |->
        [type |-> "executable_code_fence",
         language |-> Language(ms[k].m.infoString),
         shebang |-> ms[k].m.shebang, code |-> Trim(ms[k].m.code),
         original |-> Original(content, ms[k]), index |-> ms[k].index]]

\* The elements of a function over a set of naturals, in ascending key order.
RECURSIVE InOrder(_)
InOrder(f) ==
  IF DOMAIN f = {} THEN <<>>
  ELSE LET k == CHOOSE x \in DOMAIN f : \A y \in DOMAIN f : x <= y IN
       <<f[k]>> \o InOrder([x \in DOMAIN f \ {k} |-> f[x]])

parseImports(content) ==
  LET safeRanges == findSafeRanges(content)
      unsafeStarts == UnsafeStarts(content, safeRanges)
  IN SortByIndex(InOrder(FileActions(content, safeRanges))
                 \o InOrder(UrlActions(content, safeRanges))
                 \o InOrder(CommandActions(content, safeRanges))
                 \o InOrder(FenceActions(content, unsafeStarts)))

\* ------------------------------------------------- bodies given to the parser

\* The longest body, in lines.
MaxLines == 5

\* The lines bodies are made of: fence lines of both characters and of two
\* lengths, a fence run that does not start its line, a shebang line, a line
\* with a file and a url import, a line with a url import right after a file
\* import, and a line with an inline command and an import in a code span.
LineKinds ==
  { <<BT, BT, BT>>,
    <<BT, BT, BT, BT>>,
    <<TL, TL, TL>>,
    <<"x", BT, BT, BT>>,
    <<"#", "!", "s">>,
    <<"@", ".", "/", "a", " ", "@", "h", "t", "t", "p", ":", "/", "/", "u">>,
    <<"@", ".", "/", "b", "@", "h", "t", "t", "p", ":", "/", "/", "u">>,
    <<"!", BT, "c", BT, " ", BT, "@", ".", "/", "a", BT>> }

\* lines.join("\n")
RECURSIVE JoinLines(_)
JoinLines(lines) ==
  IF lines = <<>> THEN <<>>
  ELSE IF Len(lines) = 1 THEN lines[1]
  ELSE lines[1] \o <<NL>> \o JoinLines(Tail(lines))

Bodies(maxLines) ==
  UNION {{JoinLines(lines) : lines \in [1..n -> LineKinds]} : n \in 1..maxLines}

\* ------------------------------------------------------- replacement text

\* ParseInt(digits) is parseInt(digits, 10) for a text of decimal digits.
DigitValue(d) ==
  CASE d = "0" -> 0 [] d = "1" -> 1 [] d = "2" -> 2 [] d = "3" -> 3
    [] d = "4" -> 4 [] d = "5" -> 5 [] d = "6" -> 6 [] d = "7" -> 7
    [] d = "8" -> 8 [] d = "9" -> 9

RECURSIVE ParseInt(_)
ParseInt(digits) ==
  IF digits = <<>> THEN 0
  ELSE 10 * ParseInt(SubSeq(digits, 1, Len(digits) - 1))
         + DigitValue(digits[Len(digits)])

\* The decimal text of a natural number, as a template literal prints it.
RECURSIVE FormatInt(_)
FormatInt(n) ==
  LET d == CHOOSE c \in Digits : DigitValue(c) = n % 10 IN
  IF n < 10 THEN <<d>> ELSE FormatInt(n \div 10) \o <<d>>

\* content.split("\n")
RECURSIVE SplitLines(_)
SplitLines(text) ==
  LET e == SkipToNewline(text, 0) IN
  IF e >= Len(text) THEN <<text>>
  ELSE <<Slice(text, 0, e)>> \o SplitLines(Slice(text, e + 1, Len(text)))

Max(a, b) == IF a > b THEN a ELSE b
Min(a, b) == IF a < b THEN a ELSE b

extractLines(text, start, end) ==
  LET lines == SplitLines(text)
      startIdx == Max(0, start - 1)
      endIdx == Min(Len(lines), end)
  IN JoinLines(SubSeq(lines, startIdx + 1, endIdx))

RawOpen == <<"{", "%", " ", "r", "a", "w", " ", "%", "}">>
RawClose == <<"{", "%", " ", "e", "n", "d", "r", "a", "w", " ", "%", "}">>

\* The replacement string of the sanitizer:
\*   {% endraw %}{{ '{% endraw %}' }}{% raw %}
EscapedRawClose ==
  RawClose \o <<"{", "{", " ", "'">> \o RawClose \o <<"'", " ", "}", "}">>
    \o RawOpen

\* text.startsWith(pattern, i)
MatchesAt(text, i, pattern) ==
  /\ i + Len(pattern) <= Len(text)
  /\ Slice(text, i, i + Len(pattern)) = pattern

\* output.replace(/\{% endraw %\}/g, "{% endraw %}{{ '{% endraw %}' }}{% raw %}")
RECURSIVE EscapeRawClose(_, _)
EscapeRawClose(output, i) ==
  IF i >= Len(output) THEN <<>>
  ELSE IF MatchesAt(output, i, RawClose)
    THEN EscapedRawClose \o EscapeRawClose(output, i + Len(RawClose))
  ELSE <<output[i + 1]>> \o EscapeRawClose(output, i + 1)

\* The raw block put around the output of a command or a code fence; an empty
\* output is returned as it is.
WrapRaw(output) ==
  IF output # <<>>
    THEN RawOpen \o <<NL>> \o EscapeRawClose(output, 0) \o <<NL>> \o RawClose
    ELSE output

\* The text processCommandInline makes of the output of a command that exited
\* with code 0: both streams trimmed, stderr first.  (The outputs of the model
\* hold no NUL byte, no escape sequence and are shorter than the size limit.)
CommandOutput(stdout, stderr) ==
  LET out == Trim(stdout)
      err == Trim(stderr)
  IN IF err # <<>> /\ out # <<>> THEN err \o <<NL>> \o out
     ELSE IF out # <<>> THEN out ELSE err

\* The text processExecutableCodeFence makes of the output of its script.
CodeFenceOutput(stdout, stderr) == Trim(stdout \o stderr)

DryRunCommand(actualCommand) ==
  RawOpen \o <<NL>>
    \o <<"[", "D", "r", "y", " ", "R", "u", "n", ":", " ",
         "C", "o", "m", "m", "a", "n", "d", " ", "\"">>
    \o actualCommand
    \o <<"\"", " ", "n", "o", "t", " ", "e", "x", "e", "c", "u", "t", "e", "d", "]">>
    \o <<NL>> \o RawClose

DryRunCodeFence ==
  RawOpen \o <<NL>>
    \o <<"[", "D", "r", "y", " ", "R", "u", "n", ":", " ", "C", "o", "d", "e", " ",
         "f", "e", "n", "c", "e", " ", "n", "o", "t", " ",
         "e", "x", "e", "c", "u", "t", "e", "d", "]">>
    \o <<NL>> \o RawClose

\* isMarkdownFileCommand: the first word of the trimmed command ends with
\* ".md" and has at least one character before it.
isMarkdownFileCommand(command) ==
  LET t == Trim(command)
      e == NonSpaceEnd(t, 0)
  IN e >= 4 /\ Slice(t, e - 3, e) = <<".", "m", "d">>

\* actualCommand of processCommandInline; the scenarios bind no template
\* variable, so the command text is not rewritten before.
ActualCommand(command) ==
  IF isMarkdownFileCommand(command)
    THEN <<"m", "d", "f", "l", "o", "w", " ">> \o command
    ELSE command

\* --------------------------------------------------------- template engine
\* substituteTemplateVars hands the text to engine.parseAndRenderSync with no
\* variable of the names the outputs use.  The operators follow the top-level
\* tokenizer of the engine over the three constructs the replacement text can
\* hold: text, {{ output }} and {% tag %}, with raw as the only known tag.

TagLeft == <<"{", "%">>
TagRight == <<"%", "}">>
OutputLeft == <<"{", "{">>
OutputRight == <<"}", "}">>

IsWord(c) == c \in Letters \cup Digits \cup {"_"}

\* rmatch: the text that ends at p is pattern.
RMatch(text, p, pattern) ==
  p >= Len(pattern) /\ Slice(text, p - Len(pattern), p) = pattern

RECURSIVE SkipBlank(_, _)
SkipBlank(text, p) ==
  IF p < Len(text) /\ IsSpace(text[p + 1]) THEN SkipBlank(text, p + 1) ELSE p

RECURSIVE WordEnd(_, _)
WordEnd(text, p) ==
  IF p < Len(text) /\ IsWord(text[p + 1]) THEN WordEnd(text, p + 1) ELSE p

\* readIdentifier from p: where the identifier ends, and its text.
ReadIdentifier(text, p) ==
  LET begin == SkipBlank(text, p)
      end == WordEnd(text, begin)
  IN [end |-> end, name |-> Slice(text, begin, end)]

\* readTo: the first position after p that pattern ends at, or -1.
RECURSIVE ReadTo(_, _, _)
ReadTo(text, p, pattern) ==
  IF p >= Len(text) THEN -1
  ELSE IF RMatch(text, p + 1, pattern) THEN p + 1
  ELSE ReadTo(text, p + 1, pattern)

\* readQuoted: the position after the quoted string that starts at p.
RECURSIVE QuotedEnd(_, _, _)
QuotedEnd(text, p, quote) ==
  IF p >= Len(text) THEN p
  ELSE IF text[p + 1] = quote THEN p + 1
  ELSE QuotedEnd(text, p + 1, quote)

\* readToDelimiter: as readTo, stepping over quoted strings if asked to.
RECURSIVE ReadToDelimiter(_, _, _, _)
ReadToDelimiter(text, p, delimiter, respectQuoted) ==
  IF p >= Len(text) THEN -1
  ELSE IF respectQuoted /\ text[p + 1] \in {"'", "\""}
    THEN ReadToDelimiter(text, QuotedEnd(text, p + 1, text[p + 1]), delimiter,
                         respectQuoted)
  ELSE IF RMatch(text, p + 1, delimiter) THEN p + 1
  ELSE ReadToDelimiter(text, p + 1, delimiter, respectQuoted)

\* The inner loop of readEndrawOrRawContent: from the end of the identifier
\* endraw to the first position a right or a left tag delimiter ends at.
RECURSIVE TagCloseScan(_, _)
TagCloseScan(text, p) ==
  IF p > Len(text) THEN [found |-> "none", p |-> p]
  ELSE IF RMatch(text, p, TagRight) THEN [found |-> "right", p |-> p]
  ELSE IF RMatch(text, p, TagLeft) THEN [found |-> "left", p |-> p]
  ELSE TagCloseScan(text, p + 1)

EndRaw == <<"e", "n", "d", "r", "a", "w">>

\* The outer loop of readEndrawOrRawContent, at p with the last left delimiter
\* at leftPos: the tag that ends the raw block, from left to end, or closed
\* FALSE (the engine throws: raw not closed).
RECURSIVE EndrawScan(_, _, _)
EndrawScan(text, p, leftPos) ==
  IF p >= Len(text) THEN [closed |-> FALSE, left |-> -1, end |-> -1]
  ELSE LET id == ReadIdentifier(text, p) IN
       IF id.name # EndRaw
         THEN LET q == ReadTo(text, id.end, TagLeft) IN
              IF q = -1 THEN [closed |-> FALSE, left |-> -1, end |-> -1]
              ELSE EndrawScan(text, q, q - 2)
         ELSE LET scan == TagCloseScan(text, id.end) IN
              IF scan.found = "right"
                THEN [closed |-> TRUE, left |-> leftPos, end |-> scan.p]
              ELSE IF scan.found = "left"
                THEN EndrawScan(text, scan.p, leftPos)
              ELSE [closed |-> FALSE, left |-> -1, end |-> -1]

\* readEndrawOrRawContent for the raw block whose content begins at begin.
ReadEndraw(text, begin) ==
  LET q == ReadTo(text, begin, TagLeft) IN
  IF q = -1 THEN [closed |-> FALSE, left |-> -1, end |-> -1]
  ELSE EndrawScan(text, q, q - 2)

\* Where the text token that starts at p ends: at the next left delimiter.
RECURSIVE HtmlEnd(_, _)
HtmlEnd(text, p) ==
  IF p >= Len(text) \/ MatchesAt(text, p, TagLeft) \/ MatchesAt(text, p, OutputLeft)
    THEN p
    ELSE HtmlEnd(text, p + 1)

\* The value of {{ expression }}: a quoted string is itself, a variable is
\* undefined and renders as nothing (strictVariables: false).
OutputValue(expression) ==
  LET e == Trim(expression) IN
  IF Len(e) >= 2 /\ e[1] \in {"'", "\""} /\ e[Len(e)] = e[1]
    THEN SubSeq(e, 2, Len(e) - 1)
    ELSE <<>>

RenderError == [ok |-> FALSE, text |-> <<>>]

\* A rendering that went well, with text put in front of it.
Emit(text, rest) ==
  IF rest.ok THEN [ok |-> TRUE, text |-> text \o rest.text] ELSE rest

\* engine.parseAndRenderSync(text, vars) from position p on.  A tag that is
\* not closed, a raw block that is not closed and every tag but raw (endraw
\* with no raw before it among them) make the engine throw.
RECURSIVE RenderFrom(_, _)
RenderFrom(text, p) ==
  IF p >= Len(text) THEN [ok |-> TRUE, text |-> <<>>]
  ELSE IF MatchesAt(text, p, TagLeft)
    THEN LET end == ReadToDelimiter(text, p, TagRight, FALSE) IN
         IF end = -1 THEN RenderError
         ELSE IF ReadIdentifier(Slice(text, p + 2, end - 2), 0).name
                   # <<"r", "a", "w">>
           THEN RenderError
         ELSE LET endraw == ReadEndraw(text, end) IN
              IF ~endraw.closed THEN RenderError
              ELSE Emit(Slice(text, end, endraw.left),
                        RenderFrom(text, endraw.end))
  ELSE IF MatchesAt(text, p, OutputLeft)
    THEN LET end == ReadToDelimiter(text, p, OutputRight, TRUE) IN
         IF end = -1 THEN RenderError
         ELSE Emit(OutputValue(Slice(text, p + 2, end - 2)),
                   RenderFrom(text, end))
  ELSE LET end == HtmlEnd(text, p) IN
       Emit(Slice(text, p, end), RenderFrom(text, end))

substituteTemplateVars(text) == RenderFrom(text, 0)

\* ------------------------------------------------------------ the file system

\* The directory of the agent file and of every file it imports.
WorkDir == <<"/", "w">>

InWorkDir(name) == WorkDir \o <<"/", name>>

\* A chain of files, each importing the next: name -> the name it imports.
ChainNext ==
  ("1" :> "2") @@ ("2" :> "3") @@ ("3" :> "4") @@ ("4" :> "5") @@ ("5" :> "6")
    @@ ("6" :> "7") @@ ("7" :> "8") @@ ("8" :> "9") @@ ("9" :> "i")
    @@ ("i" :> "j") @@ ("j" :> "k")

\* The regular files: path -> text.
\*   a: @./b          b: B @./a           (a cycle through the agent file)
\*   p: @./l          q: Q @./m           (l and m are links to q)
\*   c: !`u` @./d !`v`     d: D !`w`      (three directives resolved at once)
\*   e: a code fence with a shebang       n: @./z, a file that does not exist
\*   h: @http://u     t: no directive
\*   g: @./r          r: two lines, the second imports line 1 of r itself
\*   1: @./2   2: @./3   ...   9: @./i   i: @./j   j: @./k   k: no directive
\*   v: @./j @./y @./o   (three file imports, each of a file with a directive)
\*   s: @./j @./j      x: @./y @./o      y: @./j      o: @./j   (a diamond)
\*   f: !`u` and ten times @./z   (one directive more than there are permits)
FileText ==
  [path \in {InWorkDir(name) :
               name \in {"a", "b", "p", "q", "c", "d", "e", "n", "h", "t", "g", "r",
                         "s", "x", "y", "o", "f", "v"}
                          \cup DOMAIN ChainNext \cup {"k"}} |->
     CASE path \in {InWorkDir(name) : name \in DOMAIN ChainNext} ->
            LET name == CHOOSE n \in DOMAIN ChainNext : path = InWorkDir(n)
            IN <<"@", ".", "/", ChainNext[name]>>
       [] path = InWorkDir("k") -> <<"K">>
       [] path = InWorkDir("f") ->
            <<"!", BT, "u", BT>>
              \o [i \in 1..50 |-> <<" ", "@", ".", "/", "z">>[((i - 1) % 5) + 1]]
       [] path = InWorkDir("s") ->
            <<"@", ".", "/", "j", " ", "@", ".", "/", "j">>
       [] path = InWorkDir("x") ->
            <<"@", ".", "/", "y", " ", "@", ".", "/", "o">>
       [] path = InWorkDir("v") ->
            <<"@", ".", "/", "j", " ", "@", ".", "/", "y", " ",
              "@", ".", "/", "o">>
       [] path \in {InWorkDir("y"), InWorkDir("o")} -> <<"@", ".", "/", "j">>
       [] path = InWorkDir("a") -> <<"@", ".", "/", "b">>
       [] path = InWorkDir("b") -> <<"B", " ", "@", ".", "/", "a">>
       [] path = InWorkDir("p") -> <<"@", ".", "/", "l">>
       [] path = InWorkDir("q") -> <<"Q", " ", "@", ".", "/", "m">>
       [] path = InWorkDir("c") ->
            <<"!", BT, "u", BT, " ", "@", ".", "/", "d", " ", "!", BT, "v", BT>>
       [] path = InWorkDir("d") -> <<"D", " ", "!", BT, "w", BT>>
       [] path = InWorkDir("e") ->
            <<"E", NL, BT, BT, BT, "s", "h", NL, "#", "!", "s", NL, "x", NL,
              BT, BT, BT, NL>>
       [] path = InWorkDir("n") -> <<"@", ".", "/", "z">>
       [] path = InWorkDir("h") -> <<"@", "h", "t", "t", "p", ":", "/", "/", "u">>
       [] path = InWorkDir("t") -> <<"T">>
       [] path = InWorkDir("g") -> <<"@", ".", "/", "r">>
       [] path = InWorkDir("r") ->
            <<"R", NL, "@", ".", "/", "r", ":", "1", "-", "1">>]

\* The symbolic links: path -> target.
Symlinks ==
  [path \in {InWorkDir("l"), InWorkDir("m")} |-> InWorkDir("q")]

\* The files an agent can be run from.
Agents ==
  {InWorkDir(name) :
     name \in {"a", "p", "c", "e", "n", "h", "t", "g", "1", "s", "x", "f"}}

\* What each command writes before it ends; a code fence writes FenceStdout.
Stdout(command) ==
  CASE command = <<"u">> -> <<"1", NL>>
    [] command = <<"v">> -> <<"2", "2", NL>>
    [] OTHER -> <<>>

Stderr(command) == <<>>

FenceStdout == <<"o", "k", NL>>

\* The body a fetch of a url returns when it succeeds.
UrlText == <<"U", NL>>

\* realpathSync(path) of a path that exists.
realpathSync(path) ==
  IF path \in DOMAIN Symlinks THEN Symlinks[path] ELSE path

\* Bun.file(path).exists()
FileExists(path) == realpathSync(path) \in DOMAIN FileText

\* Bun.file(path).text()
ReadText(path) == FileText[realpathSync(path)]

\* The resolved path taken as it is, symbolic links unresolved.
ResolvedPathOnly(filePath) == filePath

\* realpathSync throws for a path that does not exist: the path is returned.
toCanonicalPath(filePath) ==
  IF FileExists(filePath) THEN realpathSync(filePath) ELSE filePath

\* Relative paths resolve from the directory of the current file, absolute
\* paths stay; the scenarios import no path under the home directory.
resolveImportPath(importPath, currentFileDir) ==
  IF At(importPath, 0) = "/" THEN importPath
  ELSE IF MatchesAt(importPath, 0, <<".", "/">>)
    THEN currentFileDir \o <<"/">> \o Slice(importPath, 2, Len(importPath))
  ELSE currentFileDir \o <<"/">> \o importPath

\* dirname(path) of an absolute path below the root.
dirname(path) == SubSeq(path, 1, LastIndexOf(path, "/") - 1)

\* ------------------------------------------------------------ the resolver

\* The map from ImportAction to ParsedImport at the head of expandImports.
\* The scenarios hold no glob and no symbol import.
ToParsedImport(action) ==
  CASE action.type = "file" ->
         [type |-> "file", full |-> action.original, index |-> action.index,
          path |-> IF action.lineRange # <<>>
                     THEN action.path \o <<":">>
                            \o FormatInt(ParseInt(action.lineRange[1])) \o <<"-">>
                            \o FormatInt(ParseInt(action.lineRange[2]))
                     ELSE action.path]
    [] action.type = "url" ->
         [type |-> "url", full |-> action.original, index |-> action.index,
          url |-> action.url]
    [] action.type = "command" ->
         [type |-> "command", full |-> action.original, index |-> action.index,
          command |-> action.command]
    [] action.type = "executable_code_fence" ->
         [type |-> "executable_code_fence", full |-> action.original,
          index |-> action.index, action |-> action]

\* (The set around parseImports has TLC evaluate the call once.)
ParsedImports(text) ==
  CHOOSE imports \in
    {[k \in 1..Len(rawActions) |-> ToParsedImport(rawActions[k])] :
       rawActions \in {parseImports(text)}} : TRUE

hasImports(text) == Len(parseImports(text)) > 0

\* [...resolved].sort((a, b) => b.import.index - a.import.index)
RECURSIVE InsertDescending(_, _)
InsertDescending(sorted, r) ==
  IF sorted = <<>> THEN <<r>>
  ELSE IF sorted[Len(sorted)].import.index >= r.import.index
    THEN Append(sorted, r)
  ELSE Append(InsertDescending(SubSeq(sorted, 1, Len(sorted) - 1), r),
              sorted[Len(sorted)])

RECURSIVE SortDescending(_)
SortDescending(resolved) ==
  IF resolved = <<>> THEN <<>>
  ELSE InsertDescending(SortDescending(SubSeq(resolved, 1, Len(resolved) - 1)),
                        resolved[Len(resolved)])

\* result.slice(0, imp.index) + replacement + result.slice(imp.index + imp.full.length)
Splice(result, r) ==
  Slice(result, 0, Min(r.import.index, Len(result)))
    \o r.content
    \o Slice(result, Min(r.import.index + Len(r.import.full), Len(result)), Len(result))

RECURSIVE SpliceAll(_, _)
SpliceAll(result, resolved) ==
  IF resolved = <<>> THEN result
  ELSE SpliceAll(Splice(result, Head(resolved)), Tail(resolved))

\* The same loop without the sort: the entries are spliced as they come.
InjectUnsorted(text, resolved) == SpliceAll(text, resolved)

injectResolvedImports(text, resolved) ==
  SpliceAll(text, SortDescending(resolved))

\* The default number of permits of the semaphore of one expandImports call.
DEFAULT_CONCURRENCY_LIMIT == 10

COMMAND_TIMEOUT_MS == 30000

NoError == [kind |-> "none"]

\* The same record with one semaphore for the whole expansion, whose permits
\* the imports of the outermost call hold: the imports of a nested call wait.
FrameOnCallersSemaphore(text, dir, stack, imports, concurrencyLimit) ==
  [content |-> text, dir |-> dir, stack |-> stack, imports |-> imports,
   tasks |-> [k \in 1..Len(imports) |->
                [st |-> IF stack = <<>> /\ k <= concurrencyLimit
                          THEN "started" ELSE "queued",
                 value |-> <<>>, error |-> [kind |-> "none"]]],
   order |-> <<>>, status |-> "running", value |-> <<>>]

\* The activation record of one call expandImports(content, dir, stack,
\* verbose, importCtx, concurrencyLimit) whose content holds the given
\* imports: every import is handed to semaphore.run of the call's own
\* semaphore at once, and the first concurrencyLimit of them get a permit.
FrameWithLimit(text, dir, stack, imports, concurrencyLimit) ==
  [content |-> text, dir |-> dir, stack |-> stack, imports |-> imports,
   tasks |-> [k \in 1..Len(imports) |->
                [st |-> IF k <= concurrencyLimit THEN "started" ELSE "queued",
                 value |-> <<>>, error |-> NoError]],
   order |-> <<>>, status |-> "running", value |-> <<>>]

\* The same call without a sixth argument, as processAgent and
\* processFileImport make it: the limit is DEFAULT_CONCURRENCY_LIMIT.
NewFrame(text, dir, stack, imports) ==
  FrameWithLimit(text, dir, stack, imports, DEFAULT_CONCURRENCY_LIMIT)

\* ------------------------------------------------------------------- state

VARIABLES
  content,      \* the body handed to parseImports
  parsed,       \* whether parseImports has returned
  directives,   \* the ImportActions parseImports returned
  safeRanges,   \* the safe ranges findSafeRanges returned for content
  agent,        \* the path of the agent file on the command line
  dryRun,       \* whether --_dry-run is on the command line
  importCtx,    \* the ImportContext processAgent hands to expandImports
  frames,       \* the running calls of expandImports, by the imports they nest in
  procs,        \* the processes spawned, by the import that spawned them
  tmpFiles,     \* the imports whose temporary script file exists
  outcome,      \* what processAgent made of the body
  emitted,      \* what a process wrote to its stdout
  wrappedBy,    \* the processor that made the replacement text of emitted
  replacement,  \* that replacement text
  rendering,    \* what the template engine made of the replacement text
  isRemote,     \* whether the agent file was fetched from a URL
  captureOutput,        \* the capture mode runCommand is called with
  driver,               \* the driver process Bun.spawn started in runCommand
  currentChildProcess,  \* whether command.ts holds the driver process
  runAgent,     \* where runAgent stands, and the exit code runCommand gave it
  signalHandler,        \* the signal delivered, and where handleSignal stands
  exit,         \* process.exit: whether the tool has exited, and its code
  invocation,   \* the command line, the front matter and the stdin of a run
  compiled,     \* what runAgent has made of the invocation so far
  setup,        \* the command, the front matter and the configuration files
  merged        \* the front matter processAgent has made of the setup so far

parseVars == <<content, parsed, directives, safeRanges>>
runVars == <<agent, dryRun, importCtx, frames, procs, tmpFiles, outcome>>
wrapVars == <<emitted, wrappedBy, replacement, rendering>>
driveVars ==
  <<isRemote, captureOutput, driver, currentChildProcess, runAgent,
    signalHandler, exit>>
cliVars == <<invocation, compiled>>
configVars == <<setup, merged>>
vars == <<parseVars, runVars, wrapVars, driveVars, cliVars, configVars>>

\* The resolver's variables while only the parser runs.
RunIdle ==
  /\ agent = <<>>
  /\ dryRun = FALSE
  /\ importCtx = [dryRun |-> FALSE]
  /\ frames = <<>>
  /\ procs = <<>>
  /\ tmpFiles = {}
  /\ outcome = [status |-> "idle", body |-> <<>>, error |-> NoError]

\* The sanitizer's variables while it does not run.
WrapIdle ==
  /\ emitted = <<>>
  /\ wrappedBy = "none"
  /\ replacement = <<>>
  /\ rendering = [done |-> FALSE, ok |-> FALSE, text |-> <<>>]

\* No driver process: Bun.spawn of runCommand has not run.
\* onPath: Bun.which finds the binary of the driver.
NoDriver ==
  [onPath |-> TRUE, st |-> "none", eof |-> FALSE, signalled |-> FALSE,
   exited |-> 0]

\* The variables of the run of the driver while runAgent stands at at:
\* nothing spawned, no signal delivered, the tool running.
DriveAt(at) ==
  /\ isRemote = FALSE
  /\ captureOutput = "none"
  /\ driver = NoDriver
  /\ currentChildProcess = FALSE
  /\ runAgent = [at |-> at, exitCode |-> 0]
  /\ signalHandler = [signal |-> "none", at |-> "idle", killed |-> FALSE]
  /\ exit = [done |-> FALSE, code |-> 0]

\* The variables of the run of the driver while no agent runs.
DriveIdle == DriveAt("idle")

\* What a run is given: the arguments after the agent file, the entries of
\* the merged front matter, the piped input, whether stdin is a terminal, the
\* free variables of the expanded body, and the positionals of runCommand.
Invocation(args, frontmatter, stdinContent, isStdinTTY, requiredVars,
           positionals) ==
  [args |-> args, frontmatter |-> frontmatter, stdinContent |-> stdinContent,
   isStdinTTY |-> isStdinTTY, requiredVars |-> requiredVars,
   positionals |-> positionals]

\* What parseFlags returns for no arguments.
NoFlags ==
  [remainingArgs |-> <<>>, commandFromCli |-> <<>>, dryRun |-> FALSE,
   trustFlag |-> FALSE, noCache |-> FALSE, interactiveFromCli |-> FALSE,
   cwdFromCli |-> <<>>]

\* runAgent at its head: nothing parsed, bound or compiled.
NotCompiled ==
  [stage |-> "start", parsed |-> NoFlags, templateVars |-> <<>>,
   remaining |-> <<>>, missingVars |-> <<>>, prompted |-> <<>>,
   built |-> <<>>, args |-> <<>>, positionalMappings |-> <<>>, argv |-> <<>>]

\* The command line's variables while no command line is processed.
CliIdle ==
  /\ invocation = Invocation(<<>>, <<>>, <<>>, FALSE, <<>>, <<>>)
  /\ compiled = [NotCompiled EXCEPT !.stage = "idle"]

\* processAgent at its head: no defaults applied.
NotMerged == [stage |-> "start", frontmatter |-> <<>>, interactive |-> FALSE]

\* The configuration's variables while no front matter is merged.
ConfigIdle ==
  /\ setup = [command |-> "none"]
  /\ merged = [NotMerged EXCEPT !.stage = "idle"]

\* The parser's variables while only the resolver runs.
ParseIdle ==
  /\ content = <<>>
  /\ parsed = FALSE
  /\ directives = <<>>
  /\ safeRanges = <<>>

\* ----------------------------------------------- specification of the parser

InitParse ==
  /\ content \in Bodies(MaxLines)
  /\ parsed = FALSE
  /\ directives = <<>>
  /\ safeRanges = <<>>
  /\ RunIdle
  /\ WrapIdle
  /\ DriveIdle
  /\ CliIdle
  /\ ConfigIdle

\* One call parseImports(content).
ParseBody ==
  /\ ~parsed
  /\ content # <<>>
  /\ parsed' = TRUE
  /\ safeRanges' = findSafeRanges(content)
  /\ directives' = parseImports(content)
  /\ UNCHANGED <<content, runVars, wrapVars, driveVars, cliVars, configVars>>

NextParse == ParseBody

SpecParse == InitParse /\ [][NextParse]_vars

\* ---------------------------------------------- specification of the resolver

\* The greatest exit code a process of the model ends with.
MaxExitCode == 1

ExitCodes == 0..MaxExitCode

Init ==
  /\ ParseIdle
  /\ WrapIdle
  /\ DriveAt("processAgent")
  /\ CliIdle
  /\ ConfigIdle
  /\ agent \in Agents
  /\ dryRun \in BOOLEAN
  /\ importCtx = [dryRun |-> FALSE]
  /\ frames = <<>>
  /\ procs = <<>>
  /\ tmpFiles = {}
  /\ outcome = [status |-> "idle", body |-> <<>>, error |-> NoError]

\* The call of expandImports that processAgent makes.
Root == <<>>

\* processAgent waits for expandImports; once it has its answer the run goes
\* on to the template engine or ends with the import error.
Expanding == outcome.status = "expanding" /\ ~exit.done

Front(f) == SubSeq(f, 1, Len(f) - 1)

\* g is f or one of the calls f is nested in.
EnclosesOrIs(g, f) == Len(g) <= Len(f) /\ SubSeq(f, 1, Len(g)) = g

\* semaphore.run's release: the longest-waiting import gets the permit.
Release(tasks) ==
  LET queued == {k \in DOMAIN tasks : tasks[k].st = "queued"} IN
  IF queued = {} THEN tasks
  ELSE LET k == CHOOSE x \in queued : \A y \in queued : x <= y IN
       [tasks EXCEPT ![k].st = "started"]

\* The calls after import k of call f resolved to text.
Resolved(fr, f, k, text) ==
  [fr EXCEPT ![f].tasks =
               Release([@ EXCEPT ![k] = [st |-> "done", value |-> text,
                                         error |-> NoError]]),
             ![f].order = Append(@, k)]

\* The calls after import k of call f threw error: Promise.all of f rejects
\* at once, and with it the file import that awaits f, up to the root.
Rejected(fr, f, k, error) ==
  [g \in DOMAIN fr |->
     IF EnclosesOrIs(g, f)
       THEN LET j == IF g = f THEN k ELSE f[Len(g) + 1] IN
            [fr[g] EXCEPT !.status = "failed",
                          !.tasks = Release([@ EXCEPT ![j].st = "failed",
                                                      ![j].error = error])]
       ELSE fr[g]]

Resolve(f, k, text) ==
  /\ frames' = Resolved(frames, f, k, text)
  /\ UNCHANGED outcome

\* The rejection reaches processAgent, which throws ImportError.
Reject(f, k, error) ==
  /\ frames' = Rejected(frames, f, k, error)
  /\ outcome' = [status |-> "failed", body |-> <<>>, error |-> error]

\* Import k of call f holds a permit and its processor has not run yet.
Started(f, k, type) ==
  /\ Expanding
  /\ f \in DOMAIN frames
  /\ k \in DOMAIN frames[f].tasks
  /\ frames[f].tasks[k].st = "started"
  /\ frames[f].imports[k].type = type

\* processAgent up to its call of expandImports: the stack is a new Set and
\* the context holds invocationCwd and templateVars, nothing else.
processAgent ==
  /\ outcome.status = "idle"
  /\ ~exit.done
  /\ \E rawBody \in {ReadText(agent)} :
       IF hasImports(rawBody)
         THEN \E imports \in {ParsedImports(rawBody)} :
                /\ frames' = (Root :> NewFrame(rawBody, dirname(agent), <<>>,
                                               imports))
                /\ outcome' = [outcome EXCEPT !.status = "expanding"]
         ELSE /\ outcome' = [outcome EXCEPT !.status = "ok", !.body = rawBody]
              /\ UNCHANGED frames
  /\ importCtx' = [dryRun |-> FALSE]
  /\ UNCHANGED <<parseVars, wrapVars, driveVars, cliVars, configVars, agent, dryRun, procs, tmpFiles>>

\* The path is on the stack of some call, not only of this one.
OnSomeStack(path, stack) ==
  \E f \in DOMAIN frames : \E i \in 1..Len(frames[f].stack) :
    frames[f].stack[i] = path

\* stack.has(canonicalPath)
InStack(path, stack) ==
  \E i \in 1..Len(stack) : stack[i] = path

\* [...stack, canonicalPath]: the chain the circular-import error names.
Cycle(stack, canonicalPath) == Append(stack, canonicalPath)

processFileImport(f, k) ==
  /\ Started(f, k, "file")
  /\ LET fr == frames[f]
         importPath == fr.imports[k].path
         rangeParsed == parseLineRange(importPath)
     IN IF rangeParsed.range
          THEN LET resolvedPath == resolveImportPath(rangeParsed.path, fr.dir) IN
               IF ~FileExists(resolvedPath)
                 THEN Reject(f, k, [kind |-> "not found", path |-> resolvedPath])
                 ELSE Resolve(f, k, extractLines(ReadText(resolvedPath),
                                                 ParseInt(rangeParsed.start),
                                                 ParseInt(rangeParsed.end)))
          ELSE LET resolvedPath == resolveImportPath(importPath, fr.dir)
                   canonicalPath == toCanonicalPath(resolvedPath)
                   text == ReadText(resolvedPath)
               IN IF ~FileExists(resolvedPath)
                    THEN Reject(f, k, [kind |-> "not found", path |-> resolvedPath])
                  ELSE IF InStack(canonicalPath, fr.stack)
                    THEN Reject(f, k, [kind |-> "circular",
                                       cycle |-> Cycle(fr.stack, canonicalPath)])
                  ELSE \E imports \in {ParsedImports(text)} :
                         IF Len(imports) = 0
                           THEN Resolve(f, k, text)
                           ELSE /\ frames' =
                                     [frames EXCEPT ![f].tasks[k].st = "awaiting"]
                                       @@ (Append(f, k) :>
                                             NewFrame(text, dirname(resolvedPath),
                                                      Append(fr.stack, canonicalPath),
                                                      imports))
                                /\ UNCHANGED outcome
  /\ UNCHANGED <<parseVars, wrapVars, driveVars, cliVars, configVars, agent, dryRun, importCtx, procs, tmpFiles>>

\* The fetch answers with a body of an allowed type, or it fails.
processUrlImport(f, k) ==
  /\ Started(f, k, "url")
  /\ \/ Resolve(f, k, Trim(UrlText))
     \/ Reject(f, k, [kind |-> "fetch", url |-> frames[f].imports[k].url])
  /\ UNCHANGED <<parseVars, wrapVars, driveVars, cliVars, configVars, agent, dryRun, importCtx, procs, tmpFiles>>

\* A process Bun.spawn has just started: it runs, both pipes are open.
\* timer is the setTimeout of processCommandInline ("none": there is none),
\* race the state of its Promise.race: "pending", won by the "reads" or by
\* the "timeout".  signalled: proc.kill() sent SIGTERM to the running process.
\* bySignal: the signal ended it, so that exitCode is null.
Spawned(kind) ==
  [kind |-> kind, alive |-> TRUE, eof |-> FALSE, exitCode |-> 0,
   bySignal |-> FALSE, signalled |-> FALSE,
   timer |-> IF kind = "command" THEN "armed" ELSE "none",
   race |-> IF kind = "command" THEN "pending" ELSE "none"]

\* processCommandInline up to its first await.
processCommandInline(f, k) ==
  /\ Started(f, k, "command")
  /\ LET actualCommand == ActualCommand(frames[f].imports[k].command) IN
     IF importCtx.dryRun
       THEN /\ Resolve(f, k, DryRunCommand(actualCommand))
            /\ UNCHANGED procs
       ELSE /\ procs' = procs @@ (<<f, k>> :> Spawned("command"))
            /\ frames' = [frames EXCEPT ![f].tasks[k].st = "awaiting"]
            /\ UNCHANGED outcome
  /\ UNCHANGED <<parseVars, wrapVars, driveVars, cliVars, configVars, agent, dryRun, importCtx, tmpFiles>>

\* processExecutableCodeFence up to the spawn of the temporary script.
processExecutableCodeFence(f, k) ==
  /\ Started(f, k, "executable_code_fence")
  /\ IF importCtx.dryRun
       THEN /\ Resolve(f, k, DryRunCodeFence)
            /\ UNCHANGED <<procs, tmpFiles>>
       ELSE /\ tmpFiles' = tmpFiles \cup {<<f, k>>}
            /\ procs' = procs @@ (<<f, k>> :> Spawned("executable_code_fence"))
            /\ frames' = [frames EXCEPT ![f].tasks[k].st = "awaiting"]
            /\ UNCHANGED outcome
  /\ UNCHANGED <<parseVars, wrapVars, driveVars, cliVars, configVars, agent, dryRun, importCtx>>

\* The reads of both pipes end: the race of a command is won by the reads
\* unless the timeout has won it.
ReadsEnd(proc) ==
  [proc EXCEPT !.eof = TRUE,
               !.race = IF @ = "pending" THEN "reads" ELSE @]

\* The process closes its stdout and stderr and goes on running.
StreamsClose(t) ==
  /\ Expanding
  /\ t \in DOMAIN procs
  /\ procs[t].alive /\ ~procs[t].eof
  /\ procs' = [procs EXCEPT ![t] = ReadsEnd(@)]
  /\ UNCHANGED <<parseVars, wrapVars, driveVars, cliVars, configVars, agent, dryRun, importCtx, frames, tmpFiles, outcome>>

\* The process ends with an exit code of its own; its pipes close with it.
ProcessExits(t, code) ==
  /\ Expanding
  /\ t \in DOMAIN procs
  /\ procs[t].alive
  /\ procs' = [procs EXCEPT ![t] = [ReadsEnd(@) EXCEPT !.alive = FALSE,
                                                       !.exitCode = code]]
  /\ UNCHANGED <<parseVars, wrapVars, driveVars, cliVars, configVars, agent, dryRun, importCtx, frames, tmpFiles, outcome>>

\* SIGTERM ends the process: it has no exit code.
ProcessKilled(t) ==
  /\ Expanding
  /\ t \in DOMAIN procs
  /\ procs[t].alive /\ procs[t].signalled
  /\ procs' = [procs EXCEPT ![t] = [ReadsEnd(@) EXCEPT !.alive = FALSE,
                                                       !.bySignal = TRUE]]
  /\ UNCHANGED <<parseVars, wrapVars, driveVars, cliVars, configVars, agent, dryRun, importCtx, frames, tmpFiles, outcome>>

\* The callback of setTimeout, COMMAND_TIMEOUT_MS after the spawn, with the
\* process still running: proc.kill() and reject.  The rejection settles the
\* race only if the reads have not settled it.
TimeoutFires(t) ==
  /\ Expanding
  /\ t \in DOMAIN procs
  /\ procs[t].timer = "armed"
  /\ procs[t].alive
  /\ procs' = [procs EXCEPT ![t].timer = "fired", ![t].signalled = TRUE,
                            ![t].race = IF @ = "pending" THEN "timeout" ELSE @]
  /\ IF procs[t].race = "pending"
       THEN Reject(t[1], t[2],
                   [kind |-> "timed out", ms |-> COMMAND_TIMEOUT_MS])
       ELSE UNCHANGED <<frames, outcome>>
  /\ UNCHANGED <<parseVars, wrapVars, driveVars, cliVars, configVars, agent, dryRun, importCtx, tmpFiles>>

\* proc.exitCode !== 0
ExitedNonZero(proc) == proc.bySignal \/ proc.exitCode # 0

\* The same result without the check of the exit code.
CommandResultUnchecked(proc, command) ==
  [ok |-> TRUE, text |-> WrapRaw(CommandOutput(Stdout(command), Stderr(command))),
   error |-> NoError]

\* processCommandInline after  await proc.exited.
CommandResult(proc, command) ==
  IF ExitedNonZero(proc)
    THEN [ok |-> FALSE, text |-> <<>>,
          error |-> [kind |-> "Exit", code |-> proc.exitCode,
                     signal |-> proc.bySignal]]
    ELSE [ok |-> TRUE,
          text |-> WrapRaw(CommandOutput(Stdout(command), Stderr(command))),
          error |-> NoError]

\* processExecutableCodeFence after  await proc.exited.
CodeFenceResult(proc) ==
  IF ExitedNonZero(proc)
    THEN [ok |-> FALSE, text |-> <<>>,
          error |-> [kind |-> "Exit", code |-> proc.exitCode,
                     signal |-> proc.bySignal]]
    ELSE [ok |-> TRUE, text |-> WrapRaw(CodeFenceOutput(FenceStdout, <<>>)),
          error |-> NoError]

Awaiting(t) ==
  /\ Expanding
  /\ t \in DOMAIN procs
  /\ frames[t[1]].tasks[t[2]].st = "awaiting"

\* processCommandInline from the end of the race won by the reads, through
\*  await proc.exited,  to its return or throw.
CommandReturns(t) ==
  /\ Awaiting(t)
  /\ procs[t].kind = "command"
  /\ procs[t].race = "reads" /\ ~procs[t].alive
  /\ LET result == CommandResult(procs[t], frames[t[1]].imports[t[2]].command) IN
     IF result.ok THEN Resolve(t[1], t[2], result.text)
                  ELSE Reject(t[1], t[2], result.error)
  /\ UNCHANGED <<parseVars, wrapVars, driveVars, cliVars, configVars, agent, dryRun, importCtx, procs, tmpFiles>>

\* processExecutableCodeFence from the end of both reads, through
\*  await proc.exited,  to its return or throw; finally unlinks the script.
CodeFenceReturns(t) ==
  /\ Awaiting(t)
  /\ procs[t].kind = "executable_code_fence"
  /\ procs[t].eof /\ ~procs[t].alive
  /\ LET result == CodeFenceResult(procs[t]) IN
     IF result.ok THEN Resolve(t[1], t[2], result.text)
                  ELSE Reject(t[1], t[2], result.error)
  /\ tmpFiles' = tmpFiles \ {t}
  /\ UNCHANGED <<parseVars, wrapVars, driveVars, cliVars, configVars, agent, dryRun, importCtx, procs>>

\* expandImports after  await Promise.all(resolvePromises): the results come
\* in the order of the imports, whatever the order they resolved in.
expandImportsReturns(f) ==
  /\ Expanding
  /\ f \in DOMAIN frames
  /\ frames[f].status = "running"
  /\ \A k \in DOMAIN frames[f].tasks : frames[f].tasks[k].st = "done"
  /\ \E resolvedImports \in {[k \in DOMAIN frames[f].tasks |->
                                 [import |-> frames[f].imports[k],
                                  content |-> frames[f].tasks[k].value]]} :
     \E result \in {injectResolvedImports(frames[f].content, resolvedImports)} :
     \E returned \in {[frames EXCEPT ![f].status = "done",
                                     ![f].value = result]} :
       IF f = Root
         THEN /\ frames' = returned
              /\ outcome' = [outcome EXCEPT !.status = "ok", !.body = result]
         ELSE /\ frames' = Resolved(returned, Front(f), f[Len(f)], result)
              /\ UNCHANGED outcome
  /\ UNCHANGED <<parseVars, wrapVars, driveVars, cliVars, configVars, agent, dryRun, importCtx, procs, tmpFiles>>

\* currentChildProcess.kill("SIGTERM") when a process is held.
killCurrentChildProcess(proc) ==
  IF currentChildProcess /\ proc.st = "running"
    THEN [proc EXCEPT !.signalled = TRUE]
    ELSE proc

\* What killCurrentChildProcess returns: whether it sent the signal.
Killed == currentChildProcess /\ driver.st = "running"

\* process.exit(signal === "SIGINT" ? 130 : 143)
SignalExitCode(signal) == IF signal = "SIGINT" THEN 130 ELSE 143

\* The listener of SIGINT and SIGTERM that runAgent registers before it calls
\* processAgent.  Without a remote file the handler runs to process.exit in
\* one piece; with one it stops at  await cleanupRemote(localFilePath).
handleSignal(signal) ==
  /\ ~exit.done
  /\ runAgent.at # "idle"
  /\ signalHandler.signal = "none"
  /\ driver' = killCurrentChildProcess(driver)
  /\ IF isRemote
       THEN /\ signalHandler' = [signal |-> signal, at |-> "cleanupRemote",
                                  killed |-> Killed]
            /\ UNCHANGED exit
       ELSE /\ signalHandler' = [signal |-> signal, at |-> "exited",
                                  killed |-> Killed]
            /\ exit' = [done |-> TRUE, code |-> SignalExitCode(signal)]
  /\ UNCHANGED <<parseVars, runVars, wrapVars, cliVars, configVars, isRemote, captureOutput,
                 currentChildProcess, runAgent>>

Next ==
  \/ processAgent
  \/ \E f \in DOMAIN frames : \E k \in DOMAIN frames[f].tasks :
       processFileImport(f, k)
  \/ \E f \in DOMAIN frames : \E k \in DOMAIN frames[f].tasks :
       processUrlImport(f, k)
  \/ \E f \in DOMAIN frames : \E k \in DOMAIN frames[f].tasks :
       processCommandInline(f, k)
  \/ \E f \in DOMAIN frames : \E k \in DOMAIN frames[f].tasks :
       processExecutableCodeFence(f, k)
  \/ \E t \in DOMAIN procs : StreamsClose(t)
  \/ \E t \in DOMAIN procs : \E code \in ExitCodes : ProcessExits(t, code)
  \/ \E t \in DOMAIN procs : ProcessKilled(t)
  \/ \E t \in DOMAIN procs : TimeoutFires(t)
  \/ \E t \in DOMAIN procs : CommandReturns(t)
  \/ \E t \in DOMAIN procs : CodeFenceReturns(t)
  \/ \E f \in DOMAIN frames : expandImportsReturns(f)
  \/ \E signal \in {"SIGINT", "SIGTERM"} : handleSignal(signal)

Spec == Init /\ [][Next]_vars

\* What the event loop does of itself once a subprocess runs: the timer of a
\* command fires, a signal sent ends the process, the processor goes on after
\* its awaits.  When a process closes its pipes or exits is not the tool's doing.
SubprocessSteps ==
  \E t \in DOMAIN procs :
    \/ ProcessKilled(t)
    \/ TimeoutFires(t)
    \/ CommandReturns(t)
    \/ CodeFenceReturns(t)

\* The resolver under the event loop: such a step that stays possible is taken.
SpecFair == Spec /\ WF_vars(SubprocessSteps)

\* ------------------------- specification of expandImports called with a limit

\* The greatest concurrencyLimit a caller of expandImports passes.
MaxLimit == 2

\* The files whose text is handed to expandImports: each holds file imports
\* only, v three of them, and every file they import holds a directive.
Contents == {InWorkDir(name) : name \in {"v", "s", "x"}}

InitExpand ==
  /\ ParseIdle
  /\ WrapIdle
  /\ DriveAt("processAgent")
  /\ CliIdle
  /\ ConfigIdle
  /\ agent \in Contents
  /\ dryRun = FALSE
  /\ importCtx = [dryRun |-> FALSE]
  /\ frames = <<>>
  /\ procs = <<>>
  /\ tmpFiles = {}
  /\ outcome = [status |-> "idle", body |-> <<>>, error |-> NoError]

\* expandImports(content, currentFileDir, new Set(), verbose, importCtx,
\* concurrencyLimit) up to the hand-over of the imports to the semaphore.
expandImports(concurrencyLimit) ==
  /\ outcome.status = "idle"
  /\ ~exit.done
  /\ \E rawBody \in {ReadText(agent)} :
     \E imports \in {ParsedImports(rawBody)} :
       IF Len(imports) = 0
         THEN /\ outcome' = [outcome EXCEPT !.status = "ok", !.body = rawBody]
              /\ UNCHANGED frames
         ELSE /\ frames' = (Root :> FrameWithLimit(rawBody, dirname(agent), <<>>,
                                                   imports, concurrencyLimit))
              /\ outcome' = [outcome EXCEPT !.status = "expanding"]
  /\ UNCHANGED <<parseVars, wrapVars, driveVars, cliVars, configVars, agent, dryRun, importCtx, procs, tmpFiles>>

NextExpand ==
  \/ \E concurrencyLimit \in 1..MaxLimit : expandImports(concurrencyLimit)
  \/ \E f \in DOMAIN frames : \E k \in DOMAIN frames[f].tasks :
       processFileImport(f, k)
  \/ \E f \in DOMAIN frames : expandImportsReturns(f)

SpecExpand == InitExpand /\ [][NextExpand]_vars

\* ------------------------------------------ specification of the driver's run

\* cleanupRemote of handleSignal is done: the handler calls process.exit.
handleSignalExits ==
  /\ ~exit.done
  /\ signalHandler.at = "cleanupRemote"
  /\ signalHandler' = [signalHandler EXCEPT !.at = "exited"]
  /\ exit' = [done |-> TRUE, code |-> SignalExitCode(signalHandler.signal)]
  /\ UNCHANGED <<parseVars, runVars, wrapVars, cliVars, configVars, isRemote, captureOutput, driver,
                 currentChildProcess, runAgent>>

\* The exit code runCommand returns without a spawn.
CommandNotFound == 127

\* An exit code that is not the driver's.
ExitCodeDropped(proc) == 0

\* const exitCode = await proc.exited
ExitCodeOf(proc) ==
  proc.exited

\* runAgent from the return of runCommand: with a remote file it awaits
\* cleanupRemote, else it returns, run returns and main calls
\* process.exit(result.exitCode).
AfterRunCommand(exitCode) ==
  IF isRemote
    THEN /\ runAgent' = [at |-> "cleanupRemote", exitCode |-> exitCode]
         /\ UNCHANGED exit
    ELSE /\ runAgent' = [at |-> "returned", exitCode |-> exitCode]
         /\ exit' = [done |-> TRUE, code |-> exitCode]

\* runCommand up to its first await: no binary on PATH, or the spawn.
runCommand ==
  /\ ~exit.done
  /\ runAgent.at = "runCommand"
  /\ IF ~driver.onPath
       THEN /\ AfterRunCommand(CommandNotFound)
            /\ UNCHANGED <<driver, currentChildProcess>>
       ELSE /\ driver' = [driver EXCEPT !.st = "running"]
            /\ currentChildProcess' = TRUE
            /\ runAgent' = [runAgent EXCEPT !.at =
                              IF captureOutput = "none" THEN "proc.exited"
                                                        ELSE "proc.stdout"]
            /\ UNCHANGED exit
  /\ UNCHANGED <<parseVars, runVars, wrapVars, cliVars, configVars, isRemote, captureOutput,
                 signalHandler>>

\* The driver closes its stdout and goes on running.
DriverClosesStdout ==
  /\ driver.st = "running" /\ ~driver.eof
  /\ driver' = [driver EXCEPT !.eof = TRUE]
  /\ UNCHANGED <<parseVars, runVars, wrapVars, cliVars, configVars, isRemote, captureOutput,
                 currentChildProcess, runAgent, signalHandler, exit>>

\* The driver ends with an exit code of its own.
DriverExits(code) ==
  /\ driver.st = "running"
  /\ driver' = [driver EXCEPT !.st = "exited", !.eof = TRUE, !.exited = code]
  /\ UNCHANGED <<parseVars, runVars, wrapVars, cliVars, configVars, isRemote, captureOutput,
                 currentChildProcess, runAgent, signalHandler, exit>>

\* SIGTERM ends the driver: proc.exited resolves to 128 + 15.
DriverKilled ==
  /\ driver.st = "running" /\ driver.signalled
  /\ driver' = [driver EXCEPT !.st = "exited", !.eof = TRUE,
                              !.exited = 128 + 15]
  /\ UNCHANGED <<parseVars, runVars, wrapVars, cliVars, configVars, isRemote, captureOutput,
                 currentChildProcess, runAgent, signalHandler, exit>>

\* The capture and tee modes of runCommand: the stdout of the driver is read
\* to its end, then runCommand awaits proc.exited.
runCommandReadsStdout ==
  /\ ~exit.done
  /\ runAgent.at = "proc.stdout"
  /\ driver.eof
  /\ runAgent' = [runAgent EXCEPT !.at = "proc.exited"]
  /\ UNCHANGED <<parseVars, runVars, wrapVars, cliVars, configVars, isRemote, captureOutput, driver,
                 currentChildProcess, signalHandler, exit>>

\* The cell left as it is.
CellKept(cell) == cell

\* currentChildProcess = null, once proc.exited has resolved.
CellAfterExit(cell) ==
  FALSE

\* runCommand from  await proc.exited  to its return.
runCommandReturns ==
  /\ ~exit.done
  /\ runAgent.at = "proc.exited"
  /\ driver.st = "exited"
  /\ currentChildProcess' = CellAfterExit(currentChildProcess)
  /\ AfterRunCommand(ExitCodeOf(driver))
  /\ UNCHANGED <<parseVars, runVars, wrapVars, cliVars, configVars, isRemote, captureOutput, driver,
                 signalHandler>>

\* cleanupRemote of runAgent is done: runAgent returns and main exits.
runAgentReturns ==
  /\ ~exit.done
  /\ runAgent.at = "cleanupRemote"
  /\ runAgent' = [runAgent EXCEPT !.at = "returned"]
  /\ exit' = [done |-> TRUE, code |-> runAgent.exitCode]
  /\ UNCHANGED <<parseVars, runVars, wrapVars, cliVars, configVars, isRemote, captureOutput, driver,
                 currentChildProcess, signalHandler>>

CaptureModes == {"none", "capture", "tee"}

\* runAgent at its call of runCommand, the listeners registered.
InitDrive ==
  /\ ParseIdle
  /\ RunIdle
  /\ WrapIdle
  /\ CliIdle
  /\ ConfigIdle
  /\ isRemote \in BOOLEAN
  /\ captureOutput \in CaptureModes
  /\ driver \in {[NoDriver EXCEPT !.onPath = found] : found \in BOOLEAN}
  /\ currentChildProcess = FALSE
  /\ runAgent = [at |-> "runCommand", exitCode |-> 0]
  /\ signalHandler = [signal |-> "none", at |-> "idle", killed |-> FALSE]
  /\ exit = [done |-> FALSE, code |-> 0]

NextDrive ==
  \/ runCommand
  \/ DriverClosesStdout
  \/ \E code \in ExitCodes : DriverExits(code)
  \/ DriverKilled
  \/ runCommandReadsStdout
  \/ runCommandReturns
  \/ runAgentReturns
  \/ \E signal \in {"SIGINT", "SIGTERM"} : handleSignal(signal)
  \/ handleSignalExits

SpecDrive == InitDrive /\ [][NextDrive]_vars

\* --------------------------------------------- specification of the sanitizer

\* The greatest number of pieces an output of the model is made of.
MaxPieces == 5

\* The pieces of an output: the closing tag of a raw block as the sanitizer
\* looks for it, the same tag with less white space, a tag that opens a raw
\* block, an output of a variable, a letter and a space.
Pieces ==
  { RawClose,
    <<"{", "%", " ", "e", "n", "d", "r", "a", "w", "%", "}">>,
    <<"{", "%", "e", "n", "d", "r", "a", "w", "%", "}">>,
    <<"{", "%", "r", "a", "w", "%", "}">>,
    <<"{", "{", "x", "}", "}">>,
    <<"x">>,
    <<SP>> }

RECURSIVE Concat(_)
Concat(pieces) ==
  IF pieces = <<>> THEN <<>> ELSE Head(pieces) \o Concat(Tail(pieces))

Outputs(maxPieces) ==
  UNION {{Concat(pieces) : pieces \in [1..n -> Pieces]} : n \in 0..maxPieces}

InitSanitize ==
  /\ ParseIdle
  /\ RunIdle
  /\ DriveIdle
  /\ CliIdle
  /\ ConfigIdle
  /\ emitted \in Outputs(MaxPieces)
  /\ wrappedBy = "none"
  /\ replacement = <<>>
  /\ rendering = [done |-> FALSE, ok |-> FALSE, text |-> <<>>]

\* The end of processCommandInline for a command that wrote emitted to its
\* stdout, nothing to its stderr, and exited with code 0.
CommandWraps ==
  /\ wrappedBy = "none"
  /\ wrappedBy' = "command"
  /\ replacement' = WrapRaw(CommandOutput(emitted, <<>>))
  /\ UNCHANGED <<parseVars, runVars, driveVars, cliVars, configVars, emitted, rendering>>

\* The end of processExecutableCodeFence for a script that did the same.
CodeFenceWraps ==
  /\ wrappedBy = "none"
  /\ wrappedBy' = "executable_code_fence"
  /\ replacement' = WrapRaw(CodeFenceOutput(emitted, <<>>))
  /\ UNCHANGED <<parseVars, runVars, driveVars, cliVars, configVars, emitted, rendering>>

\* processAgent renders a body that is the replacement text.
RenderBody ==
  /\ wrappedBy # "none"
  /\ ~rendering.done
  /\ \E result \in {substituteTemplateVars(replacement)} :
       rendering' = [done |-> TRUE, ok |-> result.ok, text |-> result.text]
  /\ UNCHANGED <<parseVars, runVars, driveVars, cliVars, configVars, emitted, wrappedBy, replacement>>

NextSanitize == CommandWraps \/ CodeFenceWraps \/ RenderBody

SpecSanitize == InitSanitize /\ [][NextSanitize]_vars

\* ----------------------------------------------------- the command line

\* The flags the tool takes for itself, and the keys of the front matter the
\* tool keeps for itself.
CommandFlag == <<"-", "-", "_", "c", "o", "m", "m", "a", "n", "d">>
CommandShort == <<"-", "_", "c">>
DryRunFlag == <<"-", "-", "_", "d", "r", "y", "-", "r", "u", "n">>
TrustFlag == <<"-", "-", "_", "t", "r", "u", "s", "t">>
NoCacheFlag == <<"-", "-", "_", "n", "o", "-", "c", "a", "c", "h", "e">>
InteractiveFlag ==
  <<"-", "-", "_", "i", "n", "t", "e", "r", "a", "c", "t", "i", "v", "e">>
InteractiveShort == <<"-", "_", "i">>
CwdFlag == <<"-", "-", "_", "c", "w", "d">>

internalKeys ==
  {Slice(InteractiveFlag, 2, Len(InteractiveFlag)), Slice(InteractiveShort, 1, 3),
   Slice(CwdFlag, 2, Len(CwdFlag)),
   <<"_", "s", "u", "b", "c", "o", "m", "m", "a", "n", "d">>}

\* array.findIndex / array.indexOf over the places 1..Len(args): 0 for -1.
FindIndex(args, wanted) ==
  LET hits == {i \in 1..Len(args) : args[i] \in wanted} IN
  IF hits = {} THEN 0 ELSE CHOOSE i \in hits : \A j \in hits : i <= j

\* array.splice(at, count), at a place of 1..Len(args)
SpliceOut(args, at, count) ==
  SubSeq(args, 1, at - 1) \o SubSeq(args, at + count, Len(args))

\* The removal of the first --_no-cache at the head of runAgent.
WithoutNoCache(passthroughArgs) ==
  LET noCacheIdx == FindIndex(passthroughArgs, {NoCacheFlag}) IN
  IF noCacheIdx # 0 THEN SpliceOut(passthroughArgs, noCacheIdx, 1)
                    ELSE passthroughArgs

\* One flag of parseFlags that stands alone: its first occurrence goes.
TakeSwitch(args, flags) ==
  LET idx == FindIndex(args, flags) IN
  [found |-> idx # 0,
   rest |-> IF idx # 0 THEN SpliceOut(args, idx, 1) ELSE args]

\* One flag of parseFlags that takes a value: its first occurrence goes with
\* the argument after it, when there is one.
TakeOption(args, flags) ==
  LET idx == FindIndex(args, flags)
      taken == idx # 0 /\ idx + 1 <= Len(args)
  IN [found |-> taken,
      value |-> IF taken THEN args[idx + 1] ELSE <<>>,
      rest |-> IF taken THEN SpliceOut(args, idx, 2) ELSE args]

parseFlags(passthroughArgs) ==
  LET cmd == TakeOption(passthroughArgs, {CommandFlag, CommandShort})
      dry == TakeSwitch(cmd.rest, {DryRunFlag})
      trust == TakeSwitch(dry.rest, {TrustFlag})
      noCache == TakeSwitch(trust.rest, {NoCacheFlag})
      int == TakeSwitch(noCache.rest, {InteractiveFlag, InteractiveShort})
      cwd == TakeOption(int.rest, {CwdFlag})
  IN [remainingArgs |-> cwd.rest,
      commandFromCli |-> cmd.value,
      dryRun |-> dry.found,
      trustFlag |-> trust.found,
      noCache |-> noCache.found,
      interactiveFromCli |-> int.found,
      cwdFromCli |-> cwd.value]

\* ------------------------------------------------- the template variables

\* A value of the front matter: kind is the YAML type, text the characters
\* of a string or a number, items the strings of a list.
Str(text) == [kind |-> "string", text |-> text, items |-> <<>>]
Num(text) == [kind |-> "number", text |-> text, items |-> <<>>]
Bool(b) == [kind |-> IF b THEN "true" ELSE "false", text |-> <<>>, items |-> <<>>]
Null == [kind |-> "null", text |-> <<>>, items |-> <<>>]
List(items) == [kind |-> "array", text |-> <<>>, items |-> items]
Mapping == [kind |-> "object", text |-> <<>>, items |-> <<>>]

\* String(value) of a scalar.
String(value) ==
  CASE value.kind = "true" -> <<"t", "r", "u", "e">>
    [] value.kind = "false" -> <<"f", "a", "l", "s", "e">>
    [] value.kind = "null" -> <<"n", "u", "l", "l">>
    [] OTHER -> value.text

\* templateVars[key] = value
Bind(templateVars, key, value) ==
  [k \in DOMAIN templateVars \cup {key} |->
     IF k = key THEN value ELSE templateVars[k]]

\* The loop over namedVarFields: a key of the front matter that starts with
\* "_" takes the argument after its flag --key, else its default.
RECURSIVE BindNamed(_, _, _, _)
BindNamed(frontmatter, n, templateVars, remaining) ==
  IF n > Len(frontmatter)
    THEN [templateVars |-> templateVars, remaining |-> remaining]
  ELSE
    LET key == frontmatter[n].key
        defaultValue == frontmatter[n].value
        idx == FindIndex(remaining, {<<"-", "-">> \o key})
        hasFlagValue == idx # 0 /\ idx + 1 <= Len(remaining)
    IN IF ~(At(key, 0) = "_" /\ key \notin internalKeys)
         THEN BindNamed(frontmatter, n + 1, templateVars, remaining)
       ELSE IF hasFlagValue
         THEN BindNamed(frontmatter, n + 1,
                        Bind(templateVars, key, remaining[idx + 1]),
                        SpliceOut(remaining, idx, 2))
       ELSE IF defaultValue.kind # "null" /\ defaultValue # Str(<<>>)
         THEN BindNamed(frontmatter, n + 1,
                        Bind(templateVars, key, String(defaultValue)), remaining)
       ELSE BindNamed(frontmatter, n + 1, templateVars, remaining)

\* arg.indexOf("="), as a place of 1..Len(arg): 0 for -1.
EqIndex(arg) == FindIndex(arg, {"="})

\* The loop  for (let i = remaining.length - 1; i >= 0; i--)  over the flags
\* --_key=value, --_key value and --_key that the front matter does not name.
RECURSIVE BindUndeclared(_, _, _)
BindUndeclared(i, templateVars, remaining) ==
  IF i < 1 THEN [templateVars |-> templateVars, remaining |-> remaining]
  ELSE
    LET arg == remaining[i]
        isVar == MatchesAt(arg, 0, <<"-", "-", "_">>)
        eq == EqIndex(arg)
        takesNext == i + 1 <= Len(remaining) /\ At(remaining[i + 1], 0) # "-"
    IN IF isVar /\ eq # 0
         THEN IF SubSeq(arg, 3, eq - 1) \notin internalKeys
                THEN BindUndeclared(i - 1,
                       Bind(templateVars, SubSeq(arg, 3, eq - 1),
                            SubSeq(arg, eq + 1, Len(arg))),
                       SpliceOut(remaining, i, 1))
                ELSE BindUndeclared(i - 1, templateVars, remaining)
       ELSE IF isVar /\ SubSeq(arg, 3, Len(arg)) \notin internalKeys
         THEN IF takesNext
                THEN BindUndeclared(i - 1,
                       Bind(templateVars, SubSeq(arg, 3, Len(arg)),
                            remaining[i + 1]),
                       SpliceOut(remaining, i, 2))
                ELSE BindUndeclared(i - 1,
                       Bind(templateVars, SubSeq(arg, 3, Len(arg)),
                            <<"t", "r", "u", "e">>),
                       SpliceOut(remaining, i, 1))
       ELSE BindUndeclared(i - 1, templateVars, remaining)

\* The loop that parts remaining into positionalCliArgs and flagArgs: a flag
\* takes the argument after it unless that one starts with "-".
RECURSIVE SplitArgs(_, _, _, _)
SplitArgs(remaining, i, positionalCliArgs, flagArgs) ==
  IF i > Len(remaining)
    THEN [positionalCliArgs |-> positionalCliArgs, flagArgs |-> flagArgs]
  ELSE IF At(remaining[i], 0) = "-"
    THEN IF i + 1 <= Len(remaining) /\ At(remaining[i + 1], 0) # "-"
           THEN SplitArgs(remaining, i + 2, positionalCliArgs,
                          flagArgs \o <<remaining[i], remaining[i + 1]>>)
           ELSE SplitArgs(remaining, i + 1, positionalCliArgs,
                          Append(flagArgs, remaining[i]))
  ELSE SplitArgs(remaining, i + 1, Append(positionalCliArgs, remaining[i]),
                 flagArgs)

\* positionalCliArgs.map((arg, i) => `${i + 1}. ${arg}`).join("\n")
RECURSIVE NumberedList(_, _)
NumberedList(positionalCliArgs, n) ==
  IF n > Len(positionalCliArgs) THEN <<>>
  ELSE (IF n > 1 THEN <<NL>> ELSE <<>>) \o FormatInt(n) \o <<".", SP>>
         \o positionalCliArgs[n] \o NumberedList(positionalCliArgs, n + 1)

\* templateVars[`_${i + 1}`] = posArg for each positional, then _args.
RECURSIVE BindPositionals(_, _, _)
BindPositionals(positionalCliArgs, n, templateVars) ==
  IF n > Len(positionalCliArgs)
    THEN IF Len(positionalCliArgs) > 0
           THEN Bind(templateVars, <<"_", "a", "r", "g", "s">>,
                     NumberedList(positionalCliArgs, 1))
           ELSE templateVars
  ELSE BindPositionals(positionalCliArgs, n + 1,
                       Bind(templateVars, <<"_">> \o FormatInt(n),
                            positionalCliArgs[n]))

\* processAgent from  let templateVars = {}  to  remaining = flagArgs.
TemplateBindings(frontmatter, stdinContent, remainingArgs) ==
  LET piped == IF stdinContent # <<>>
                 THEN Bind(<<>>, <<"_", "s", "t", "d", "i", "n">>, stdinContent)
                 ELSE <<>>
      named == BindNamed(frontmatter, 1, piped, remainingArgs)
      flagged == BindUndeclared(Len(named.remaining), named.templateVars,
                                named.remaining)
      split == SplitArgs(flagged.remaining, 1, <<>>, <<>>)
  IN [templateVars |-> BindPositionals(split.positionalCliArgs, 1,
                                       flagged.templateVars),
      remaining |-> split.flagArgs]

\* ------------------------------------------------- the argument compiler

SYSTEM_KEYS == {<<"a", "r", "g", "s">>}

\* /^\$\d+$/.test(key)
isPositionalKey(key) ==
  /\ Len(key) >= 2
  /\ key[1] = "$"
  /\ \A i \in 2..Len(key) : key[i] \in Digits

toFlag(key) ==
  IF At(key, 0) = "-" THEN key
  ELSE IF Len(key) = 1 THEN <<"-">> \o key
  ELSE <<"-", "-">> \o key

\* A loop of buildArgs that skips the system keys and nothing else.
SkipsSystemKeysOnly(key, value, templateVars) == key \in SYSTEM_KEYS

\* The tests of buildArgs that end an iteration with  continue  before any
\* push: the key is not for the driver, or the value switches the flag off.
Skips(key, value, templateVars) ==
  \/ key \in SYSTEM_KEYS
  \/ isPositionalKey(key)
  \/ At(key, 0) = "$"
  \/ At(key, 0) = "_"
  \/ key \in templateVars
  \/ key = <<"e", "n", "v">> /\ value.kind = "object"
  \/ value.kind \in {"undefined", "null", "false"}

\* for (const v of value) args.push(toFlag(key), String(v))
RECURSIVE Repeated(_, _, _)
Repeated(key, items, n) ==
  IF n > Len(items) THEN <<>>
  ELSE <<toFlag(key), items[n]>> \o Repeated(key, items, n + 1)

\* [object Object], the String of a mapping
ObjectText ==
  <<"[", "o", "b", "j", "e", "c", "t", SP, "O", "b", "j", "e", "c", "t", "]">>

\* The loop of buildArgs from entry n of Object.entries(frontmatter) on.
RECURSIVE BuildFrom(_, _, _)
BuildFrom(frontmatter, templateVars, n) ==
  IF n > Len(frontmatter) THEN <<>>
  ELSE
    LET key == frontmatter[n].key
        value == frontmatter[n].value
        pushed ==
          IF Skips(key, value, templateVars) THEN <<>>
          ELSE IF value.kind = "true" THEN <<toFlag(key)>>
          ELSE IF value.kind = "array" THEN Repeated(key, value.items, 1)
          ELSE IF value.kind = "object" THEN <<toFlag(key), ObjectText>>
          ELSE <<toFlag(key), String(value)>>
    IN pushed \o BuildFrom(frontmatter, templateVars, n + 1)

buildArgs(frontmatter, templateVars) == BuildFrom(frontmatter, templateVars, 1)

\* The Map of extractPositionalMappings: later entries of a position win.
extractPositionalMappings(frontmatter) ==
  LET mapped == {n \in 1..Len(frontmatter) :
                   /\ isPositionalKey(frontmatter[n].key)
                   /\ frontmatter[n].value.kind = "string"}
      positions == {ParseInt(Slice(frontmatter[n].key, 1,
                                   Len(frontmatter[n].key))) : n \in mapped}
  IN [pos \in positions |->
        LET last == CHOOSE n \in mapped :
                      /\ ParseInt(Slice(frontmatter[n].key, 1,
                                        Len(frontmatter[n].key))) = pos
                      /\ \A m \in mapped :
                           ParseInt(Slice(frontmatter[m].key, 1,
                                          Len(frontmatter[m].key))) = pos
                             => m <= n
        IN frontmatter[last].value.text]

\* The value of a key of the front matter, Null for undefined.
Lookup(frontmatter, key) ==
  LET at == {n \in 1..Len(frontmatter) : frontmatter[n].key = key} IN
  IF at = {} THEN Null ELSE frontmatter[CHOOSE n \in at : TRUE].value

\* The arguments with no _subcommand before them.
ArgsWithoutSubcommand(frontmatter, args) == args

\* finalRunArgs of runAgent: _subcommand, a string or a list, goes first.
finalRunArgs(frontmatter, args) ==
  LET sub == Lookup(frontmatter, <<"_", "s", "u", "b", "c", "o", "m", "m", "a", "n", "d">>)
  IN IF sub.kind = "array" THEN sub.items \o args
     ELSE IF sub.kind = "string" /\ sub.text # <<>> THEN <<sub.text>> \o args
     ELSE args

\* The loop of runCommand over the positionals, from positional pos on.
RECURSIVE PositionalSection(_, _, _)
PositionalSection(positionals, positionalMappings, pos) ==
  IF pos > Len(positionals) THEN <<>>
  ELSE (IF pos \in DOMAIN positionalMappings
          THEN <<toFlag(positionalMappings[pos]), positionals[pos]>>
          ELSE <<positionals[pos]>>)
         \o PositionalSection(positionals, positionalMappings, pos + 1)

\* finalArgs of runCommand: what Bun.spawn gets after the command.
finalArgs(args, positionals, positionalMappings) ==
  args \o PositionalSection(positionals, positionalMappings, 1)

\* --------------------------------------- specification of the command line

\* The greatest number of arguments after the agent file on a command line.
MaxArgs == 3

\* The rendered body, and a second positional of a caller of runCommand.
Body == <<"B">>
Second == <<"C">>

\* The arguments of the command lines: the tool's own flags, the flag of the
\* template variable _n in both forms, a flag of the driver, and a word.
CliTokens ==
  {CommandFlag, CommandShort, DryRunFlag, TrustFlag, NoCacheFlag,
   InteractiveFlag, InteractiveShort, CwdFlag,
   <<"-", "-", "_", "n">>, <<"-", "-", "_", "n", "=", "w">>,
   <<"-", "-", "m", "d">>, <<"v">>}

Entry(key, value) == [key |-> key, value |-> value]

\* The entries the front matters are made of.
Entries ==
  {Entry(<<"a", "r", "g", "s">>, List(<<<<"a">>>>)),
   Entry(<<"$", "1">>, Str(<<"p">>)),
   Entry(<<"$", "1">>, Str(<<"p", "r">>)),
   Entry(<<"$", "1">>, Num(<<"5">>)),
   Entry(<<"$", "2">>, Str(<<"q", "q">>)),
   Entry(<<"$", "y">>, Str(<<"v">>)),
   Entry(<<"_", "n">>, Str(<<"d">>)),
   Entry(<<"_", "s", "u", "b", "c", "o", "m", "m", "a", "n", "d">>,
         Str(<<"e", "x">>)),
   Entry(<<"_", "s", "u", "b", "c", "o", "m", "m", "a", "n", "d">>,
         List(<<<<"a">>, <<"b">>>>)),
   Entry(<<"m", "d">>, Str(<<"v">>)),
   Entry(<<"m", "d">>, Bool(TRUE)),
   Entry(<<"m", "d">>, Bool(FALSE)),
   Entry(<<"m", "d">>, Null),
   Entry(<<"m", "d">>, List(<<<<"a">>, <<"b">>>>)),
   Entry(<<"p">>, Str(<<"v">>)),
   Entry(<<"x">>, Str(<<"v">>)),
   Entry(<<"e", "n", "v">>, Mapping),
   Entry(<<"e", "n", "v">>, Str(<<"e">>))}

\* The front matters of at most two entries: YAML keeps one entry per key.
Frontmatters ==
  {<<>>} \cup {<<e>> : e \in Entries}
    \cup {pair \in Entries \X Entries : pair[1].key # pair[2].key}

\* Command lines of every shape over a front matter that names _n or nothing.
ArgvRuns(maxArgs) ==
  {Invocation(args, frontmatter, <<>>, FALSE, <<>>, <<Body>>) :
     args \in UNION {[1..n -> CliTokens] : n \in 0..maxArgs},
     frontmatter \in {<<>>, <<Entry(<<"_", "n">>, Str(<<"d">>))>>}}

\* Front matters of every shape under a short command line; the body may
\* name the free variable x, which the terminal is asked for.
FrontmatterRuns ==
  {Invocation(args, frontmatter, <<>>, TRUE, requiredVars, positionals) :
     args \in {<<>>, <<<<"v">>>>, <<<<"-", "-", "_", "n">>, <<"v">>>>},
     frontmatter \in Frontmatters,
     requiredVars \in {<<>>, <<<<"x">>>>},
     positionals \in {<<Body>>, <<Body, Second>>}}

\* One name bound by several sources, and bodies with free variables, with
\* and without piped input and a terminal.
BindingRuns ==
  {Invocation(args, frontmatter, stdinContent, isStdinTTY, requiredVars,
              <<Body>>) :
     args \in {<<>>, <<<<"v">>>>, <<<<"-", "-", "_", "n", "=", "w">>>>,
               <<<<"-", "-", "_", "1">>, <<"w">>, <<"v">>>>,
               <<<<"-", "-", "_", "s", "t", "d", "i", "n">>, <<"w">>>>},
     frontmatter \in {<<>>, <<Entry(<<"_", "n">>, Str(<<"d">>))>>,
                      <<Entry(<<"_", "1">>, Str(<<"d">>))>>,
                      <<Entry(<<"_", "s", "t", "d", "i", "n">>, Str(<<"d">>))>>},
     stdinContent \in {<<>>, <<"s">>},
     isStdinTTY \in BOOLEAN,
     requiredVars \in {<<>>, <<<<"_", "n">>>>, <<<<"x">>>>,
                       <<<<"_", "q">>, <<"x">>>>,
                       <<<<"_", "s", "t", "d", "i", "n">>>>}}

InitCli ==
  /\ ParseIdle
  /\ RunIdle
  /\ WrapIdle
  /\ DriveIdle
  /\ ConfigIdle
  /\ invocation \in ArgvRuns(MaxArgs) \cup FrontmatterRuns \cup BindingRuns
  /\ compiled = NotCompiled

\* runAgent from its head to  const parsed = this.parseFlags(passthroughArgs).
runAgentParsesFlags ==
  /\ compiled.stage = "start"
  /\ compiled' = [compiled EXCEPT
                    !.stage = "parsed",
                    !.parsed = parseFlags(WithoutNoCache(invocation.args))]
  /\ UNCHANGED <<parseVars, runVars, wrapVars, driveVars, configVars, invocation>>

\* requiredVars.filter((v) => !(v in templateVars))
MissingVars(requiredVars, templateVars) ==
  SelectSeq(requiredVars, LAMBDA v : v \notin DOMAIN templateVars)

\* processAgent up to the test of missingVars.
processAgentBinds ==
  /\ compiled.stage = "parsed"
  /\ \E bound \in {TemplateBindings(invocation.frontmatter,
                                    invocation.stdinContent,
                                    compiled.parsed.remainingArgs)} :
       compiled' = [compiled EXCEPT
                      !.stage = "bound",
                      !.templateVars = bound.templateVars,
                      !.remaining = bound.remaining,
                      !.missingVars = MissingVars(invocation.requiredVars,
                                                  bound.templateVars)]
  /\ UNCHANGED <<parseVars, runVars, wrapVars, driveVars, configVars, invocation>>

\* templateVars[v] = await this.promptInput(`${v}:`), for one missing v.
processAgentPrompts(answer) ==
  /\ compiled.stage = "bound"
  /\ compiled.missingVars # <<>>
  /\ invocation.isStdinTTY
  /\ compiled' = [compiled EXCEPT
                    !.templateVars = Bind(@, Head(compiled.missingVars), answer),
                    !.prompted = Append(@, Head(compiled.missingVars)),
                    !.missingVars = Tail(@)]
  /\ UNCHANGED <<parseVars, runVars, wrapVars, driveVars, configVars, invocation>>

\* throw new TemplateError(`Missing template variables: ...`)
processAgentThrows ==
  /\ compiled.stage = "bound"
  /\ compiled.missingVars # <<>>
  /\ ~invocation.isStdinTTY
  /\ compiled' = [compiled EXCEPT !.stage = "TemplateError"]
  /\ UNCHANGED <<parseVars, runVars, wrapVars, driveVars, configVars, invocation>>

\* processAgent from the rendering to its return.
processAgentReturns ==
  /\ compiled.stage = "bound"
  /\ compiled.missingVars = <<>>
  /\ \E built \in {buildArgs(invocation.frontmatter,
                             DOMAIN compiled.templateVars)} :
       compiled' = [compiled EXCEPT
                      !.stage = "compiled",
                      !.built = built,
                      !.args = built \o compiled.remaining,
                      !.positionalMappings =
                         extractPositionalMappings(invocation.frontmatter)]
  /\ UNCHANGED <<parseVars, runVars, wrapVars, driveVars, configVars, invocation>>

\* handleDryRun prints the command and throws EarlyExitRequest.
handleDryRun ==
  /\ compiled.stage = "compiled"
  /\ compiled.parsed.dryRun
  /\ compiled' = [compiled EXCEPT !.stage = "EarlyExitRequest"]
  /\ UNCHANGED <<parseVars, runVars, wrapVars, driveVars, configVars, invocation>>

\* runAgent from finalRunArgs to Bun.spawn([command, ...finalArgs]) in
\* runCommand.
runCommandSpawns ==
  /\ compiled.stage = "compiled"
  /\ ~compiled.parsed.dryRun
  /\ compiled' = [compiled EXCEPT
                    !.stage = "spawned",
                    !.argv = finalArgs(finalRunArgs(invocation.frontmatter,
                                                    compiled.args),
                                       invocation.positionals,
                                       compiled.positionalMappings)]
  /\ UNCHANGED <<parseVars, runVars, wrapVars, driveVars, configVars, invocation>>

\* What the user types at a prompt.
Answers == {<<"u">>}

NextCli ==
  \/ runAgentParsesFlags
  \/ processAgentBinds
  \/ \E answer \in Answers : processAgentPrompts(answer)
  \/ processAgentThrows
  \/ processAgentReturns
  \/ handleDryRun
  \/ runCommandSpawns

SpecCli == InitCli /\ [][NextCli]_vars

\* ------------------------------------------------- the configuration cascade

\* result[key] = value: an own key keeps its place, a new key goes last.
Assign(object, key, value) ==
  IF \E n \in 1..Len(object) : object[n].key = key
    THEN [n \in 1..Len(object) |->
            IF object[n].key = key THEN Entry(key, value) ELSE object[n]]
    ELSE Append(object, Entry(key, value))

\* { ...base, ...override }
RECURSIVE Spread(_, _)
Spread(base, override) ==
  IF override = <<>> THEN base
  ELSE Spread(Assign(base, Head(override).key, Head(override).value),
              Tail(override))

\* key in object
Has(object, key) == \E n \in 1..Len(object) : object[n].key = key

\* delete object[key]
Delete(object, key) == SelectSeq(object, LAMBDA e : e.key # key)

PrintKey == <<"p", "r", "i", "n", "t">>
ModelKey == <<"m", "o", "d", "e", "l">>
SubcommandKey == <<"_", "s", "u", "b", "c", "o", "m", "m", "a", "n", "d">>
InteractiveKey == Slice(InteractiveFlag, 2, Len(InteractiveFlag))
IKey == Slice(InteractiveShort, 1, Len(InteractiveShort))
Prompt == <<"p", "r", "o", "m", "p", "t">>

\* buildBuiltinDefaults(): the entry each registered adapter contributes.
BUILTIN_DEFAULTS ==
  [hasCommands |-> TRUE,
   commands |->
     [cmd \in {"claude", "codex", "copilot", "gemini"} |->
        CASE cmd = "claude" -> <<Entry(PrintKey, Bool(TRUE))>>
          [] cmd = "codex" -> <<Entry(SubcommandKey, Str(<<"e", "x", "e", "c">>))>>
          [] cmd = "copilot" ->
               <<Entry(<<"$", "1">>, Str(Prompt)),
                 Entry(<<"s", "i", "l", "e", "n", "t">>, Bool(TRUE))>>
          [] OTHER -> <<>>]]

\* adapter.applyInteractiveMode(result) of the adapter getAdapter(command)
\* gives; the default adapter changes nothing.
AdapterInteractive(command, frontmatter) ==
  CASE command = "claude" -> Delete(frontmatter, PrintKey)
    [] command = "codex" -> Delete(frontmatter, SubcommandKey)
    [] command = "copilot" ->
         IF Lookup(frontmatter, <<"$", "1">>) = Str(Prompt)
           THEN Assign(frontmatter, <<"$", "1">>,
                       Str(<<"i", "n", "t", "e", "r", "a", "c", "t", "i", "v", "e">>))
           ELSE frontmatter
    [] command = "gemini" ->
         Assign(frontmatter, <<"$", "1">>,
                Str(Prompt \o <<"-", "i", "n", "t", "e", "r", "a", "c", "t", "i", "v", "e">>))
    [] OTHER -> frontmatter

\* The interactiveMode of applyInteractiveMode: _i counts only when the front
\* matter has no key _interactive.
interactiveMode(frontmatter, interactiveFromExternal) ==
  LET hasInteractiveKey == Has(frontmatter, InteractiveKey)
      hasIKey == Has(frontmatter, IKey)
      interactiveValue == IF hasInteractiveKey
                            THEN Lookup(frontmatter, InteractiveKey)
                            ELSE Lookup(frontmatter, IKey)
      defined == hasInteractiveKey \/ hasIKey
  IN \/ interactiveFromExternal
     \/ defined /\ interactiveValue.kind = "true"
     \/ defined /\ interactiveValue = Str(<<>>)
     \/ hasInteractiveKey /\ interactiveValue.kind = "null"
     \/ hasIKey /\ defined /\ interactiveValue.kind = "null"
     \/ defined /\ interactiveValue.kind # "false"

applyInteractiveMode(frontmatter, command, interactiveFromExternal) ==
  IF ~interactiveMode(frontmatter, interactiveFromExternal) THEN frontmatter
  ELSE AdapterInteractive(command,
                          Delete(Delete(frontmatter, InteractiveKey), IKey))

\* A GlobalConfig: whether it has the key commands, the mapping of that key
\* from command names to defaults, and the other top-level keys of the object.
NoCommands == [hasCommands |-> FALSE, commands |-> <<>>, rest |-> <<>>]
Config(commands) == [hasCommands |-> TRUE, commands |-> commands, rest |-> <<>>]

\* A configuration file: whether it exists, and the GlobalConfig in it.
NoFile == [exists |-> FALSE, config |-> NoCommands]
File(config) == [exists |-> TRUE, config |-> config]

deepCloneConfig(config) ==
  IF config.hasCommands
    THEN Config([cmd \in DOMAIN config.commands |->
                   Spread(<<>>, config.commands[cmd])])
    ELSE NoCommands

\* A merge that keeps of the base only the commands the override names.
MergeOfOverriddenCommands(base, override) ==
  IF override.hasCommands
    THEN Config([cmd \in DOMAIN override.commands |->
                   Spread(IF base.hasCommands /\ cmd \in DOMAIN base.commands
                            THEN base.commands[cmd] ELSE <<>>,
                          override.commands[cmd])])
    ELSE deepCloneConfig(base)

mergeConfigs(base, override) ==
  LET result == deepCloneConfig(base) IN
  IF override.hasCommands
    THEN Config([cmd \in DOMAIN result.commands \cup DOMAIN override.commands |->
                   IF cmd \in DOMAIN override.commands
                     THEN Spread(IF cmd \in DOMAIN result.commands
                                   THEN result.commands[cmd] ELSE <<>>,
                                 override.commands[cmd])
                     ELSE result.commands[cmd]])
    ELSE result

\* loadGlobalConfig: ~/.mdflow/config.yaml over the built-in defaults.
loadGlobalConfig(userFile) ==
  IF userFile.exists THEN mergeConfigs(BUILTIN_DEFAULTS, userFile.config)
                     ELSE mergeConfigs(BUILTIN_DEFAULTS, NoCommands)

\* loadProjectConfig: the file of the git root, when the git root is above
\* the working directory, then the file of the working directory over it.
loadProjectConfig(gitRoot, gitRootFile, cwdFile) ==
  LET projectConfig == IF gitRoot = "above" /\ gitRootFile.exists
                         THEN gitRootFile.config ELSE NoCommands
  IN IF cwdFile.exists THEN mergeConfigs(projectConfig, cwdFile.config)
                       ELSE projectConfig

loadFullConfig(userFile, gitRoot, gitRootFile, cwdFile) ==
  mergeConfigs(loadGlobalConfig(userFile),
               loadProjectConfig(gitRoot, gitRootFile, cwdFile))

\* getCommandDefaults: config.commands?.[command] of loadGlobalConfig().
getCommandDefaults(command, userFile) ==
  LET config == loadGlobalConfig(userFile) IN
  IF config.hasCommands /\ command \in DOMAIN config.commands
    THEN [defined |-> TRUE, entries |-> config.commands[command]]
    ELSE [defined |-> FALSE, entries |-> <<>>]

applyDefaults(frontmatter, defaults) ==
  IF ~defaults.defined THEN frontmatter
  ELSE Spread(defaults.entries, frontmatter)

\* ------------------------------------ specification of the merged front matter

\* The configuration files of a layer: none, or one that gives the commands
\* claude and codex the keys model and print with the layer's mark as value.
LayerFiles(mark) ==
  {NoFile, File(NoCommands),
   File(Config("claude" :> <<Entry(ModelKey, Str(mark))>>)),
   File(Config("claude" :> <<Entry(PrintKey, Str(mark))>>)),
   File(Config("claude" :> <<Entry(ModelKey, Str(mark)), Entry(PrintKey, Str(mark))>>)),
   File(Config("codex" :> <<Entry(ModelKey, Str(mark))>>)),
   File(Config(("claude" :> <<Entry(ModelKey, Str(mark))>>)
                 @@ ("codex" :> <<Entry(ModelKey, Str(mark))>>)))}

Setup(command, baseFrontmatter, userFile, gitRoot, gitRootFile, cwdFile,
      interactiveFromFilename, interactiveFromCli) ==
  [command |-> command, baseFrontmatter |-> baseFrontmatter,
   userFile |-> userFile, gitRoot |-> gitRoot, gitRootFile |-> gitRootFile,
   cwdFile |-> cwdFile, interactiveFromFilename |-> interactiveFromFilename,
   interactiveFromCli |-> interactiveFromCli]

\* Runs of claude and codex under every combination of configuration files;
\* the git root is absent, the working directory, or above it.
ConfigRuns ==
  {Setup(command, baseFrontmatter, userFile, gitRoot, gitRootFile, cwdFile,
         FALSE, FALSE) :
     command \in {"claude", "codex"},
     baseFrontmatter \in {<<>>, <<Entry(ModelKey, Str(<<"f">>))>>},
     userFile \in LayerFiles(<<"u">>),
     gitRoot \in {"none", "cwd", "above"},
     gitRootFile \in LayerFiles(<<"g">>),
     cwdFile \in LayerFiles(<<"c">>)}

\* The values a front matter gives _interactive and _i; <<>>: the key is absent.
InteractiveValues ==
  {<<>>, <<Bool(TRUE)>>, <<Bool(FALSE)>>, <<Null>>, <<Str(<<>>)>>,
   <<Str(<<"x">>)>>}

\* Runs of every adapter over front matters with and without the keys
\* _interactive and _i, with and without the marker and the flag.
InteractiveRuns ==
  {Setup(command,
         <<Entry(ModelKey, Str(<<"f">>))>>
           \o [n \in 1..Len(long) |-> Entry(InteractiveKey, long[n])]
           \o [n \in 1..Len(short) |-> Entry(IKey, short[n])],
         NoFile, "none", NoFile, NoFile, interactiveFromFilename,
         interactiveFromCli) :
     command \in {"claude", "codex", "copilot", "gemini", "custom"},
     long \in InteractiveValues, short \in InteractiveValues,
     interactiveFromFilename \in BOOLEAN, interactiveFromCli \in BOOLEAN}

InitConfig ==
  /\ ParseIdle
  /\ RunIdle
  /\ WrapIdle
  /\ DriveIdle
  /\ CliIdle
  /\ setup \in ConfigRuns \cup InteractiveRuns
  /\ merged = NotMerged

\* processAgent: loadGlobalConfig, getCommandDefaults, applyDefaults.
processAgentAppliesDefaults ==
  /\ merged.stage = "start"
  /\ merged' = [merged EXCEPT
                  !.stage = "defaults",
                  !.frontmatter =
                     applyDefaults(setup.baseFrontmatter,
                                   getCommandDefaults(setup.command,
                                                      setup.userFile))]
  /\ UNCHANGED <<parseVars, runVars, wrapVars, driveVars, cliVars, setup>>

\* processAgent: hasInteractiveMarker and applyInteractiveMode.
processAgentAppliesInteractiveMode ==
  /\ merged.stage = "defaults"
  /\ \E external \in {setup.interactiveFromFilename
                        \/ setup.interactiveFromCli} :
       merged' = [merged EXCEPT
                    !.stage = "merged",
                    !.interactive = interactiveMode(merged.frontmatter, external),
                    !.frontmatter = applyInteractiveMode(merged.frontmatter,
                                                         setup.command, external)]
  /\ UNCHANGED <<parseVars, runVars, wrapVars, driveVars, cliVars, setup>>

NextConfig ==
  \/ processAgentAppliesDefaults
  \/ processAgentAppliesInteractiveMode

SpecConfig == InitConfig /\ [][NextConfig]_vars

\* ------------------------------------------- specification of the layer merge

\* The layers of one mark: without commands, with no command, or with defaults
\* of claude (model and print in either order) and of codex.
CommandLayers(mark) ==
  {NoCommands} \cup
  {Config([cmd \in {"claude" : n \in 1..Len(claude)}
                     \cup {"codex" : n \in 1..Len(codex)} |->
             IF cmd = "claude" THEN claude[1] ELSE codex[1]]) :
     claude \in {<<>>, <<<<>>>>,
                 <<<<Entry(ModelKey, Str(mark))>>>>,
                 <<<<Entry(PrintKey, Str(mark))>>>>,
                 <<<<Entry(ModelKey, Str(mark)), Entry(PrintKey, Str(mark))>>>>,
                 <<<<Entry(PrintKey, Str(mark)), Entry(ModelKey, Str(mark))>>>>},
     codex \in {<<>>, <<<<Entry(ModelKey, Str(mark))>>>>}}

\* The layers as a configuration file gives them: with and without another
\* top-level key beside commands.
Layers(mark) ==
  {[layer EXCEPT !.rest = rest] :
     layer \in CommandLayers(mark),
     rest \in {<<>>, <<Entry(<<"x">>, Str(mark))>>}}

InitMerge ==
  /\ ParseIdle
  /\ RunIdle
  /\ WrapIdle
  /\ DriveIdle
  /\ CliIdle
  /\ setup \in [base : Layers(<<"a">>), override : Layers(<<"b">>),
                 last : Layers(<<"c">>)]
  /\ merged = [stage |-> "start", self |-> NoCommands, left |-> NoCommands,
               right |-> NoCommands]

\* mergeConfigs(base, base)
MergeWithItself ==
  /\ merged.stage = "start"
  /\ merged' = [merged EXCEPT !.stage = "self",
                              !.self = mergeConfigs(setup.base, setup.base)]
  /\ UNCHANGED <<parseVars, runVars, wrapVars, driveVars, cliVars, setup>>

\* mergeConfigs(mergeConfigs(base, override), last)
MergeLeftFirst ==
  /\ merged.stage = "self"
  /\ merged' = [merged EXCEPT
                  !.stage = "left",
                  !.left = mergeConfigs(mergeConfigs(setup.base, setup.override),
                                        setup.last)]
  /\ UNCHANGED <<parseVars, runVars, wrapVars, driveVars, cliVars, setup>>

\* mergeConfigs(base, mergeConfigs(override, last))
MergeRightFirst ==
  /\ merged.stage = "left"
  /\ merged' = [merged EXCEPT
                  !.stage = "right",
                  !.right = mergeConfigs(setup.base,
                                         mergeConfigs(setup.override, setup.last))]
  /\ UNCHANGED <<parseVars, runVars, wrapVars, driveVars, cliVars, setup>>

NextMerge ==
  \/ MergeWithItself
  \/ MergeLeftFirst
  \/ MergeRightFirst

SpecMerge == InitMerge /\ [][NextMerge]_vars

\* ------------------------------------------ fenced blocks and inline spans,
\* as the claims about the parser define them (not as the scanner finds them)

\* The number of leading spaces of the line starting at p.
Indent(text, p) == RunLength(text, p, SP)

\* The fence run of the line starting at p: after at most three spaces, three
\* or more backticks or tildes.  len = 0 when the line starts with no fence.
FenceLine(text, p) ==
  LET at == p + Indent(text, p)
      char == At(text, at)
      len == IF char \in {BT, TL} THEN RunLength(text, at, char) ELSE 0
  IN IF Indent(text, p) <= 3 /\ len >= 3
       THEN [at |-> at, char |-> char, len |-> len]
       ELSE [at |-> at, char |-> "", len |-> 0]

\* The index after the line starting at p, its newline included.
NextLine(text, p) ==
  LET e == SkipToNewline(text, p) IN IF e < Len(text) THEN e + 1 ELSE e

NoFence == [at |-> -1, char |-> "", len |-> 0]

\* The fenced blocks of text, line by line from the line starting at p: a
\* block opens on a fence line and closes on the next line that starts with
\* at least as many of the same fence character.  open is the fence line of
\* the block being read, NoFence outside a block.
RECURSIVE FencedBlocks(_, _, _)
FencedBlocks(text, p, open) ==
  IF p >= Len(text)
    THEN IF open.len > 0
           THEN {[at |-> open.at, end |-> Len(text), closed |-> FALSE]}
           ELSE {}
  ELSE LET line == FenceLine(text, p)
           next == NextLine(text, p)
       IN IF open.len = 0
            THEN FencedBlocks(text, next, IF line.len > 0 THEN line ELSE NoFence)
          ELSE IF line.len >= open.len /\ line.char = open.char
            THEN {[at |-> open.at, end |-> next, closed |-> TRUE]}
                   \cup FencedBlocks(text, next, NoFence)
          ELSE FencedBlocks(text, next, open)

\* index lies inside a fenced block that is opened and closed.
InFencedBlock(text, index) ==
  \E b \in FencedBlocks(text, 0, NoFence) :
    b.closed /\ b.at <= index /\ index < b.end

\* index lies inside a fenced block, closed or running to the end of the text,
\* and is not the position where the block opens.
NestedInFence(text, index) ==
  \E b \in FencedBlocks(text, 0, NoFence) : b.at < index /\ index < b.end

\* index is where a fenced block opens.
OpensFencedBlock(text, index) ==
  \E b \in FencedBlocks(text, 0, NoFence) : b.at = index

\* The least index k >= p on p's line where a backtick run of length n starts,
\* -1 when the line has none.
RECURSIVE ClosingRun(_, _, _)
ClosingRun(text, p, n) ==
  IF p >= Len(text) \/ At(text, p) = NL THEN -1
  ELSE IF At(text, p) = BT
    THEN LET m == RunLength(text, p, BT) IN
         IF m = n THEN p ELSE ClosingRun(text, p + m, n)
  ELSE ClosingRun(text, p + 1, n)

\* The inline code spans of text from index p on: a backtick run opens a span
\* that the next backtick run of the same length on the same line closes.
RECURSIVE InlineSpans(_, _)
InlineSpans(text, p) ==
  IF p >= Len(text) THEN {}
  ELSE IF At(text, p) # BT THEN InlineSpans(text, p + 1)
  ELSE LET n == RunLength(text, p, BT)
           close == ClosingRun(text, p + n, n)
       IN IF close = -1 THEN InlineSpans(text, p + n)
          ELSE {[start |-> p, end |-> close + n]}
                 \cup InlineSpans(text, close + n)

\* index lies inside an inline code span that is outside every fenced block.
InInlineSpan(text, index) ==
  \E sp \in InlineSpans(text, 0) :
    /\ sp.start < index /\ index < sp.end
    /\ ~\E b \in FencedBlocks(text, 0, NoFence) :
          b.at <= sp.start /\ sp.start < b.end

\* ------------------------------------------------------------------ claims

\* The types of the directives that import text: all but the code fence.
ImportingTypes == {"file", "glob", "symbol", "url", "command"}

\* C1: the parser emits no File, Glob, Symbol, Url or Command directive whose
\* index lies inside a fenced code block (one that opens on a line starting,
\* after at most three spaces, with three or more backticks or tildes and
\* closes on the next line starting with at least as many of the same
\* character) or inside an inline code span.
C1_NoImportInsideCode ==
  parsed =>
    \A k \in 1..Len(directives) :
      directives[k].type \in ImportingTypes =>
        /\ ~InFencedBlock(content, directives[k].index)
        /\ ~InInlineSpan(content, directives[k].index)

\* C2: an ExecFence directive is emitted only at the opening position of a
\* top-level fenced block: never for a fence nested inside a larger fenced
\* block, and never at a position inside an inline code span.
C2_ExecFenceOnlyOpensTopLevelFence ==
  parsed =>
    \A k \in 1..Len(directives) :
      directives[k].type = "executable_code_fence" =>
        /\ OpensFencedBlock(content, directives[k].index)
        /\ ~NestedInFence(content, directives[k].index)
        /\ ~InInlineSpan(content, directives[k].index)

\* C3: with --_dry-run on the command line no shell of an inline command and
\* no process of a code fence is spawned at any point of the run, and every
\* Command and ExecFence directive that is resolved is replaced by its
\* dry-run placeholder.
C3_DryRunSpawnsNothing ==
  dryRun =>
    /\ DOMAIN procs = {}
    /\ tmpFiles = {}
    /\ \A f \in DOMAIN frames : \A k \in DOMAIN frames[f].tasks :
         frames[f].tasks[k].st = "done" =>
           /\ frames[f].imports[k].type = "command" =>
                frames[f].tasks[k].value
                  = DryRunCommand(ActualCommand(frames[f].imports[k].command))
           /\ frames[f].imports[k].type = "executable_code_fence" =>
                frames[f].tasks[k].value = DryRunCodeFence

\* The file that file import k of call f names, resolved from the directory
\* of the importing file, its line range left off.
ImportedFile(f, k) ==
  resolveImportPath(parseLineRange(frames[f].imports[k].path).path, frames[f].dir)

\* Import k of call f is a file import that takes the whole file.
PlainFileImport(f, k) ==
  /\ frames[f].imports[k].type = "file"
  /\ ~parseLineRange(frames[f].imports[k].path).range

\* The file that import k of call f names exists and is, symbolic links
\* resolved, a file on the import stack of call f.
ImportsFileOnStack(f, k) ==
  /\ FileExists(ImportedFile(f, k))
  /\ \E i \in 1..Len(frames[f].stack) :
       realpathSync(frames[f].stack[i]) = realpathSync(ImportedFile(f, k))

\* No file occurs twice, symbolic links resolved, on an import stack.
NoFileTwiceOnStack ==
  \A f \in DOMAIN frames :
    \A i, j \in 1..Len(frames[f].stack) :
      realpathSync(frames[f].stack[i]) = realpathSync(frames[f].stack[j]) => i = j

\* Import k of call f has not been opened and expanded, and if it has failed
\* it has failed with the circular-import error.
FailsAsCircular(f, k) ==
  /\ Append(f, k) \notin DOMAIN frames
  /\ frames[f].tasks[k].st \in {"queued", "started", "failed"}
  /\ frames[f].tasks[k].st = "failed" =>
       frames[f].tasks[k].error.kind = "circular"

\* C4, as amended: along every chain of nested file imports no canonical
\* path occurs more than once in the import stack, and an import of a whole
\* file (no line range, no symbol, no glob) whose canonical path is already
\* on the stack fails with a circular-import error instead of being opened
\* and expanded.
C4_WholeFileImportsNeverRepeat ==
  /\ NoFileTwiceOnStack
  /\ \A f \in DOMAIN frames : \A k \in DOMAIN frames[f].tasks :
       PlainFileImport(f, k) /\ ImportsFileOnStack(f, k) => FailsAsCircular(f, k)

\* C4, as stated: no canonical path occurs more than once in the import
\* stack, and every import of a file whose canonical path is already on the
\* stack fails with a circular-import error instead of being opened and
\* expanded.
C4_NoImportOfFileOnStack ==
  /\ NoFileTwiceOnStack
  /\ \A f \in DOMAIN frames : \A k \in DOMAIN frames[f].tasks :
       frames[f].imports[k].type = "file" /\ ImportsFileOnStack(f, k)
         => FailsAsCircular(f, k)

\* An import through a symbolic link of a file that is on the stack under
\* another name has failed with the circular-import error.
C4_Witness ==
  \E f \in DOMAIN frames : \E k \in DOMAIN frames[f].tasks :
    /\ PlainFileImport(f, k)
    /\ ImportsFileOnStack(f, k)
    /\ ImportedFile(f, k) # realpathSync(ImportedFile(f, k))
    /\ \A i \in 1..Len(frames[f].stack) : frames[f].stack[i] # ImportedFile(f, k)
    /\ frames[f].tasks[k].st = "failed"
    /\ frames[f].tasks[k].error.kind = "circular"
    /\ outcome.status = "failed"

\* C5: a circular-import error names the full import chain, starting at the
\* top-level agent file and ending with the repeated path.
C5_CycleStartsAtAgentFile ==
  outcome.status = "failed" /\ outcome.error.kind = "circular" =>
    LET cycle == outcome.error.cycle IN
    /\ cycle[1] = toCanonicalPath(agent)
    /\ \E i \in 1..(Len(cycle) - 1) : cycle[i] = cycle[Len(cycle)]

\* The body read from index from on, with import k and those after it
\* replaced by their values, left to right.
RECURSIVE ReplacedFrom(_, _, _, _, _)
ReplacedFrom(text, imports, values, k, from) ==
  IF k > Len(imports) THEN Slice(text, from, Len(text))
  ELSE Slice(text, from, imports[k].index) \o values[k]
         \o ReplacedFrom(text, imports, values, k + 1,
                         imports[k].index + Len(imports[k].full))

\* C6: for a fixed body and fixed replacement text per directive, the
\* expanded body a call of the resolver returns is the same for every order
\* in which the resolutions complete: it is the body with each directive
\* replaced by its text.
C6_BodyIndependentOfCompletionOrder ==
  \A f \in DOMAIN frames :
    frames[f].status = "done" =>
      frames[f].value
        = ReplacedFrom(frames[f].content, frames[f].imports,
                       [k \in DOMAIN frames[f].tasks |-> frames[f].tasks[k].value],
                       1, 0)

\* A call with three directives has returned after they completed last first.
C6_Witness ==
  \E f \in DOMAIN frames :
    /\ frames[f].status = "done"
    /\ Len(frames[f].imports) = 3
    /\ frames[f].order = <<3, 2, 1>>
    /\ \E k \in 1..3 : Len(frames[f].tasks[k].value) # Len(frames[f].imports[k].full)

\* C7: the directives the parser returns have strictly ascending indices and
\* pairwise disjoint spans: for any two consecutive directives a and b,
\* a.index + len(a.original) <= b.index.
C7_AscendingDisjointSpans ==
  parsed =>
    \A k \in 1..(Len(directives) - 1) :
      directives[k].index + Len(directives[k].original) <= directives[k + 1].index

\* C8: an inline command whose shell is still running when the 30 seconds
\* are over is killed, and its resolution fails with the timeout error
\* instead of yielding replacement text.
C8_RunningAtTimeoutFailsWithTimeout ==
  \A t \in DOMAIN procs :
    procs[t].timer = "fired" =>
      /\ procs[t].signalled
      /\ frames[t[1]].tasks[t[2]].st # "done"
      /\ frames[t[1]].tasks[t[2]].st = "failed" =>
           frames[t[1]].tasks[t[2]].error.kind = "timed out"

\* C9: whenever an inline command or an executable code fence exits with a
\* non-zero exit code, its resolution fails and the whole expansion fails;
\* no output of that process is spliced into the body.
C9_NonZeroExitFailsExpansion ==
  \A t \in DOMAIN procs :
    ~procs[t].alive /\ procs[t].exitCode # 0 =>
      /\ frames[t[1]].tasks[t[2]].st \in {"awaiting", "failed"}
      /\ frames[t[1]].tasks[t[2]].value = <<>>
      /\ frames[t[1]].tasks[t[2]].st = "failed" => outcome.status = "failed"
      /\ frames[t[1]].status # "done"
      /\ outcome.status # "ok"

\* A command has exited with code 1 after its output was read, and its
\* resolution and the expansion have failed with the exit error.
C9_Witness ==
  \E t \in DOMAIN procs :
    /\ procs[t].kind = "command"
    /\ ~procs[t].alive /\ procs[t].exitCode = 1
    /\ Stdout(frames[t[1]].imports[t[2]].command) # <<>>
    /\ frames[t[1]].tasks[t[2]].st = "failed"
    /\ frames[t[1]].tasks[t[2]].error.kind = "Exit"
    /\ outcome.status = "failed"
    /\ outcome.error.kind = "Exit"

\* C10: nothing in the output of a command or a code fence can terminate the
\* raw wrapper around it: rendering the wrapped replacement reproduces the
\* output text verbatim, between the line breaks of the wrapper, with no tag
\* or variable from the output evaluated.
C10_WrappedOutputRendersVerbatim ==
  rendering.done =>
    /\ rendering.ok
    /\ rendering.text
         = IF Trim(emitted) = <<>> THEN <<>>
           ELSE <<NL>> \o Trim(emitted) \o <<NL>>

C11_WitnessNotFound == exit.done /\ ~driver.onPath /\ exit.code = 127

\* C12: a tool that has exited after SIGINT (SIGTERM) was delivered while the
\* driver ran has exited with 130 (143), however the signal handler, the exit
\* of the killed driver and the remote-file cleanups interleave.
C12_SignalDecidesExitCode ==
  (exit.done /\ signalHandler.killed)
    => exit.code = SignalExitCode(signalHandler.signal)

\* C13: when the tool has exited on SIGINT or SIGTERM, every inline-command
\* shell and every executable-fence subprocess it started has ended or has
\* been sent a signal by the cancellation.
C13_NoSubprocessOutlivesCancellation ==
  (exit.done /\ signalHandler.signal # "none")
    => \A t \in DOMAIN procs : ~procs[t].alive \/ procs[t].signalled

\* The argv of the driver is built: buildArgs has returned.
ArgsBuilt == compiled.stage \in {"compiled", "spawned", "EarlyExitRequest"}

Elements(seq) == {seq[i] : i \in 1..Len(seq)}

\* The keys the compiler must make no flag of: args, $..., _..., a consumed
\* template variable, env with a mapping, and any key whose value is null,
\* undefined or false.
ExcludedEntry(entry, consumed) ==
  \/ entry.key = <<"a", "r", "g", "s">>
  \/ entry.key[1] \in {"$", "_"}
  \/ entry.key \in consumed
  \/ entry.key = <<"e", "n", "v">> /\ entry.value.kind = "object"
  \/ entry.value.kind \in {"null", "undefined", "false"}

\* C14: the output of the argument compiler holds neither -key nor --key for
\* a key that is args, starts with $ or _, is a consumed template variable,
\* is env with a mapping value, or has the value null, undefined or false.
C14_NoFlagOfExcludedKey ==
  ArgsBuilt =>
    \A n \in 1..Len(invocation.frontmatter) :
      ExcludedEntry(invocation.frontmatter[n], DOMAIN compiled.templateVars)
        => /\ <<"-">> \o invocation.frontmatter[n].key \notin Elements(compiled.built)
           /\ <<"-", "-">> \o invocation.frontmatter[n].key
                \notin Elements(compiled.built)

\* The front matter  x: v, md: v  with x consumed as a template variable:
\* the compiler gives --md v and nothing for x.
C14_Witness ==
  /\ compiled.stage = "compiled"
  /\ invocation.frontmatter =
       <<Entry(<<"x">>, Str(<<"v">>)), Entry(<<"m", "d">>, Str(<<"v">>))>>
  /\ <<"x">> \in DOMAIN compiled.templateVars
  /\ compiled.built = <<<<"-", "-", "m", "d">>, <<"v">>>>

\* The elements _subcommand puts first: a list's items or the one string.
SubcommandElements ==
  LET sub == Lookup(invocation.frontmatter,
                    <<"_", "s", "u", "b", "c", "o", "m", "m", "a", "n", "d">>)
  IN CASE sub.kind = "array" -> sub.items
       [] sub.kind = "string" -> <<sub.text>>
       [] OTHER -> <<>>

\* The flag name $pos declares; the front matter holds $pos once.
Declared(pos, stringOnly) ==
  LET value == Lookup(invocation.frontmatter, <<"$">> \o FormatInt(pos)) IN
  IF value.kind = "string" \/ (~stringOnly /\ value.kind = "number")
    THEN <<value.text>> ELSE <<>>

\* The flag of a name: --name, and -n for a name of one character when the
\* short form is allowed.
FlagOf(name, short) ==
  IF short /\ Len(name) = 1 THEN <<"-">> \o name ELSE <<"-", "-">> \o name

\* The positionals from pos on, each as the flag its $pos declares followed
\* by its value, or as its value alone.
RECURSIVE EmittedPositionals(_, _, _)
EmittedPositionals(pos, short, stringOnly) ==
  IF pos > Len(invocation.positionals) THEN <<>>
  ELSE (IF Declared(pos, stringOnly) # <<>>
          THEN <<FlagOf(Declared(pos, stringOnly)[1], short),
                 invocation.positionals[pos]>>
          ELSE <<invocation.positionals[pos]>>)
         \o EmittedPositionals(pos + 1, short, stringOnly)

HijackedFlags ==
  {CommandFlag, CommandShort, InteractiveFlag, InteractiveShort, DryRunFlag,
   TrustFlag, NoCacheFlag, CwdFlag}

\* C16: no element of the argv passed to the driver is one of the flags
\* --_command, -_c, --_interactive, -_i, --_dry-run, --_trust, --_no-cache,
\* --_cwd.
C16_NoHijackedFlagInArgv ==
  compiled.stage = "spawned" =>
    \A i \in 1..Len(compiled.argv) : compiled.argv[i] \notin HijackedFlags

\* The variables are bound: processAgent is past  remaining = flagArgs.
Bound == compiled.stage \notin {"idle", "start", "parsed"}

\* The bare words of the command line, when it holds no flag.
OnlyWords ==
  \A i \in 1..Len(invocation.args) : invocation.args[i][1] # "-"

\* C19: a name bound by piped input has the piped value; else a name bound
\* by a positional has the positional's value; else a name bound by a flag
\* --_key value has the flag's value, whatever default the front matter gives.
C19_HigherSourceWins ==
  (Bound /\ compiled.prompted = <<>>) =>
    /\ invocation.stdinContent # <<>>
         => compiled.templateVars[<<"_", "s", "t", "d", "i", "n">>]
              = invocation.stdinContent
    /\ OnlyWords
         => \A n \in 1..Len(invocation.args) :
              compiled.templateVars[<<"_">> \o FormatInt(n)] = invocation.args[n]
    /\ (Len(invocation.args) = 2 /\ MatchesAt(invocation.args[1], 0, <<"-", "-", "_">>)
        /\ invocation.args[1] \notin HijackedFlags
        /\ EqIndex(invocation.args[1]) = 0
        /\ invocation.args[2][1] # "-"
        /\ (invocation.stdinContent = <<>>
            \/ invocation.args[1] # <<"-", "-", "_", "s", "t", "d", "i", "n">>))
         => compiled.templateVars[SubSeq(invocation.args[1], 3,
                                         Len(invocation.args[1]))]
              = invocation.args[2]

\* C20: only free variables that start with "_" are prompted for, and the run
\* fails with the missing-variables error only when such a variable is unbound.
C20_OnlyUnderscoreVariablesAreMissing ==
  /\ \A i \in 1..Len(compiled.prompted) : compiled.prompted[i][1] = "_"
  /\ compiled.stage = "TemplateError"
       => \E i \in 1..Len(invocation.requiredVars) :
            /\ invocation.requiredVars[i][1] = "_"
            /\ invocation.requiredVars[i] \notin DOMAIN compiled.templateVars


\* The front matter asks for interactive mode: the marker or the flag is
\* there, or one of the keys _interactive and _i has a value other than false.
InteractiveRequested ==
  \/ setup.interactiveFromFilename
  \/ setup.interactiveFromCli
  \/ \E key \in {InteractiveKey, IKey} :
       /\ Has(setup.baseFrontmatter, key)
       /\ Lookup(setup.baseFrontmatter, key).kind # "false"

\* C17: the interactive transformation is applied exactly when the file name
\* or the command line asks for it or the front matter has _interactive or _i
\* with a value other than false, and then the result has neither key.
C17_InteractiveExactlyWhenRequested ==
  merged.stage = "merged" =>
    /\ merged.interactive <=> InteractiveRequested
    /\ merged.interactive =>
         /\ ~Has(merged.frontmatter, InteractiveKey)
         /\ ~Has(merged.frontmatter, IKey)

\* The layers that define the command, lowest first: built-in defaults, the
\* user's file, the file of a git root above the working directory, the file
\* of the working directory.
LayersOf(command) ==
  LET layer(present, config) ==
        IF present /\ config.hasCommands /\ command \in DOMAIN config.commands
          THEN <<config.commands[command]>> ELSE <<>>
  IN layer(TRUE, BUILTIN_DEFAULTS)
       \o layer(setup.userFile.exists, setup.userFile.config)
       \o layer(setup.gitRoot = "above" /\ setup.gitRootFile.exists,
                setup.gitRootFile.config)
       \o layer(setup.cwdFile.exists, setup.cwdFile.config)

\* C18: a key of the command's defaults that the front matter leaves out has
\* the value of the highest layer that defines it.
C18_HigherLayerWins ==
  merged.stage = "defaults" =>
    \A n \in 1..Len(LayersOf(setup.command)) :
      \A e \in 1..Len(LayersOf(setup.command)[n]) :
        LET key == LayersOf(setup.command)[n][e].key IN
        (/\ ~Has(setup.baseFrontmatter, key)
         /\ \A above \in (n + 1)..Len(LayersOf(setup.command)) :
              ~Has(LayersOf(setup.command)[above], key))
          => /\ Has(merged.frontmatter, key)
             /\ Lookup(merged.frontmatter, key)
                  = LayersOf(setup.command)[n][e].value


\* C21: merging a configuration layer with itself gives that layer.
C21_MergeIsIdempotent ==
  merged.stage = "self" => merged.self = setup.base

\* C22: merging three layers from the left gives what merging them from the
\* right gives.
C22_MergeIsAssociative ==
  merged.stage = "right" => merged.left = merged.right

C22_Witness ==
  /\ merged.stage = "right"
  /\ setup.base.hasCommands /\ "claude" \in DOMAIN setup.base.commands
  /\ ~setup.override.hasCommands
  /\ setup.last.hasCommands /\ "claude" \in DOMAIN setup.last.commands
  /\ Len(setup.base.commands["claude"]) = 1
  /\ Len(merged.left.commands["claude"]) = 2
  /\ merged.left.commands["claude"][1].value = Str(<<"c">>)


\* The directive resolutions in flight: the imports of every running call of
\* expandImports that hold a permit and have not settled.
InFlight ==
  UNION {{<<f, k>> : k \in {j \in DOMAIN frames[f].tasks :
                               frames[f].tasks[j].st \in {"started", "awaiting"}}} :
           f \in DOMAIN frames}

\* C23: at every instant at most DEFAULT_CONCURRENCY_LIMIT directive
\* resolutions are in flight, those of recursively imported files included.
C23_InFlightWithinCapacity ==
  Cardinality(InFlight) <= DEFAULT_CONCURRENCY_LIMIT


\* A cancellation has occurred: a signal was delivered, or the timer of an
\* inline command has fired.
Cancelled ==
  \/ signalHandler.signal # "none"
  \/ \E t \in DOMAIN procs : procs[t].timer = "fired"

\* C24: no step in which a cancellation occurs or that follows one hands a
\* permit to a directive that was waiting for it.
C24_NoDispatchAfterCancellation ==
  [][(\E f \in DOMAIN frames : \E k \in DOMAIN frames[f].tasks :
        /\ frames[f].tasks[k].st = "queued"
        /\ frames'[f].tasks[k].st # "queued")
       => ~Cancelled']_vars


\* The resolution of an executable code fence waits for its subprocess.
FenceAwaited ==
  /\ Expanding
  /\ \E t \in DOMAIN procs :
       /\ procs[t].kind = "executable_code_fence"
       /\ frames[t[1]].tasks[t[2]].st = "awaiting"

\* C25: the resolution of an executable code fence always ends, its
\* subprocess being killed when it still runs at the timeout.
C25_FenceResolutionEnds == FenceAwaited ~> ~FenceAwaited

\* C26: the cell is null before the driver is spawned, holds the driver while
\* it runs, and is null once runCommand has returned, whatever the capture
\* mode and the exit code.
C26_CellClearedWhenRunCommandReturns ==
  /\ runAgent.at = "runCommand" => ~currentChildProcess
  /\ driver.st = "running" => currentChildProcess
  /\ runAgent.at \in {"cleanupRemote", "returned"} => ~currentChildProcess

\* runCommand has returned the exit code 1 of a driver run under capture.
C26_Witness ==
  /\ runAgent.at \in {"cleanupRemote", "returned"}
  /\ captureOutput = "capture"
  /\ driver.st = "exited"
  /\ runAgent.exitCode = 1
  /\ ~currentChildProcess

\* The canonical paths of the files whose expansion call f is nested in,
\* outermost first, the file of call f last.
AncestorFiles(f) ==
  [i \in 1..Len(f) |->
     toCanonicalPath(ImportedFile(SubSeq(f, 1, i - 1), f[i]))]

\* The agent files that import one file twice: s by two sibling directives,
\* x through the two files y and o.
TwiceImporting == {InWorkDir("s"), InWorkDir("x")}

\* C27: the import stack of every call holds the files that call is nested
\* in and no file of a sibling, so that a file imported by two siblings or
\* through two chains is expanded in both places: the run does not fail.
C27_SiblingsShareNoStack ==
  /\ \A f \in DOMAIN frames : frames[f].stack = AncestorFiles(f)
  /\ agent \in TwiceImporting => outcome.status # "failed"

\* The diamond is expanded, the file at its bottom in both places.
C27_Witness ==
  /\ agent = InWorkDir("x")
  /\ outcome.status = "ok"
  /\ outcome.body = <<"K", " ", "K">>
  /\ frames[<<1, 1>>].stack = <<InWorkDir("y"), InWorkDir("j")>>
  /\ frames[<<2, 1>>].stack = <<InWorkDir("o"), InWorkDir("j")>>

\* The tool is over: process.exit was called, or the expansion has returned
\* or thrown to processAgent.
ToolOver == exit.done \/ outcome.status \in {"ok", "failed"}

\* C28: when the tool is over no temporary script of a code fence exists,
\* whether the script succeeded, failed, or a signal ended the tool while
\* the script was running.
C28_NoTemporaryFileLeft ==
  ToolOver => tmpFiles = {}

\* The expansion has returned its text or thrown.
Finished == outcome.status \in {"ok", "failed"}

\* A step of the expansion can be taken: the call itself, the processor of
\* an import that holds a permit, or the return of a call whose imports are
\* all resolved.
StepPossible ==
  \/ outcome.status = "idle"
  \/ \E f \in DOMAIN frames : \E k \in DOMAIN frames[f].tasks :
       Started(f, k, "file")
  \/ \E f \in DOMAIN frames :
       /\ Expanding
       /\ frames[f].status = "running"
       /\ \A k \in DOMAIN frames[f].tasks : frames[f].tasks[k].st = "done"

RECURSIVE Total(_)
Total(numbers) ==
  IF numbers = <<>> THEN 0 ELSE Head(numbers) + Total(Tail(numbers))

\* The file imports of one text, and the depth the calls nest to, in the
\* finite set of files without a cycle the expansion reads.
MaxImports == 3

MaxNesting == 3

\* More than the steps an import at the given depth of nesting has left
\* before its processor runs: the processor's step, the return of the call
\* it makes, and the steps of at most MaxImports imports one level deeper.
StepsOfImport(depth) == (MaxImports + 2) ^ (MaxNesting - depth)

\* The steps call f has left: its return, and the steps of its imports
\* whose processor has not run.
StepsOfCall(f) ==
  (IF frames[f].status = "running" THEN 1 ELSE 0)
    + Total([k \in DOMAIN frames[f].tasks |->
               IF frames[f].tasks[k].st \in {"queued", "started"}
                 THEN StepsOfImport(Len(f))
                 ELSE 0])

RECURSIVE StepsOfCalls(_)
StepsOfCalls(calls) ==
  IF calls = {} THEN 0
  ELSE LET f == CHOOSE g \in calls : TRUE
       IN StepsOfCall(f) + StepsOfCalls(calls \ {f})

\* A bound on the steps the expansion has left.
StepsLeft ==
  IF outcome.status = "idle" THEN 2 + MaxImports * StepsOfImport(0)
  ELSE IF Finished THEN 0
  ELSE StepsOfCalls(DOMAIN frames)

\* C29: the expansion of a finite set of files without a cycle comes to its
\* end, also when a body holds more file imports than the limit of its
\* semaphore and every imported file holds directives: until it has ended a
\* step can be taken (no import waits for a permit that is never released),
\* and every step lowers a bound on the steps left.
C29_ExpansionTerminates ==
  /\ [](Finished \/ StepPossible)
  /\ [][StepsLeft' < StepsLeft]_vars

\* The third import of v waits for a permit while the expansion of an
\* imported file is at its own directive.
C29_Witness ==
  /\ agent = InWorkDir("v")
  /\ frames # <<>>
  /\ frames[Root].tasks[3].st = "queued"
  /\ <<1>> \in DOMAIN frames
  /\ frames[<<1>>].tasks[1].st = "started"

\* The scanner's loop from a fence it has opened to the index after the
\* block: after the closing fence line, or the end of the content.
RECURSIVE FenceScan(_, _)
FenceScan(content_, s) ==
  IF s.i < Len(content_) /\ s.context = "fenced_code"
    THEN FenceScan(content_, ScanStep(content_, s))
    ELSE s

FencedBlockEnd(content_, index) ==
  FenceScan(content_, ScanStep(content_, [ScanInit EXCEPT !.i = index,
                                                         !.rangeStart = index])).i

\* The span injectResolvedImports replaces for a directive ends here.
SpanEnd(directive) == directive.index + Len(directive.original)

\* C30: the span replaced for an executable code fence is the fenced block
\* the safe-range scan recognises at its index: it ends where the closing
\* fence line of the block ends, before or after the line's newline.
C30_FenceSpanIsScannedBlock ==
  parsed =>
    \A k \in 1..Len(directives) :
      directives[k].type = "executable_code_fence" =>
        LET blockEnd == FencedBlockEnd(content, directives[k].index) IN
        \/ SpanEnd(directives[k]) = blockEnd
        \/ /\ SpanEnd(directives[k]) = blockEnd - 1
           /\ At(content, blockEnd - 1) = NL

====
